---- MODULE Spec2Model ----
(***************************************************************************)
(* A model of the exam-practice tool of src/ui.py: the QuestionManager     *)
(* (question sets, cursor, per-question mastery fields), the               *)
(* DatabaseManager (the SQLite tables user_progress and app_state) and the *)
(* MainWindow handlers that drive them.                                    *)
(*                                                                         *)
(* Python dictionaries are mutable objects shared by reference: a question *)
(* dict can be in the list registered in question_sets and in the list     *)
(* `questions` at once.  The model therefore keeps the question dicts in   *)
(* a heap (objs) and the lists as sequences of object identities.          *)
(*                                                                         *)
(* Strings of the source that are not ASCII are written as ASCII tokens:   *)
(*   "single" = '单选题', "multi" = '多选题', "judge" = '判断题',          *)
(*   "T" = '正确', "F" = '错误'.                                           *)
(***************************************************************************)
EXTENDS Integers, Sequences, FiniteSets, TLC

\* ------------------------------------------------------------------ bounds

\* Number of question dicts that can exist at once.
MaxObjs == 6
\* Number of record_answer calls in one behaviour.
MaxAnswers == 4
\* Number of times a question is marked in one behaviour of StoreSpec.
MaxMarks == 1
\* Release thresholds tried by StoreSpec are 0..MaxThreshold.
MaxThreshold == 2
\* Submissions that reach record_answer in one behaviour of Spec.
MaxSubmits == 2
\* Commands besides answering and navigating (start, import, set selection,
\* mark, wrong list, release) in one behaviour of Spec.
MaxCmds == 3
\* Calls of load_from_excel and record_answer in one behaviour of BankSpec.
MaxCalls == 4
\* Answers, marks, saves and restarts in one behaviour of PersistSpec.
MaxSaves == 3
\* Single-shot timers pending at once.
MaxTimers == 1

\* ------------------------------------------------------------------ inputs

\* The bank files (Excel tables), one per set name: the rows in file order.
\* Column 题号 is `id`, 题型 is `type`, 正确答案 is `answer`; `options` are the
\* letters whose option cell is not empty.
FileS ==
    << [id |-> "1.1.1", type |-> "single", options |-> {"A", "B"}, answer |-> <<"A">>],
       [id |-> "2.1.2", type |-> "multi",  options |-> {"A", "B"}, answer |-> <<"A", "B">>],
       [id |-> "1.1.3", type |-> "single", options |-> {"A", "B"}, answer |-> <<"B">>] >>

FileA ==
    << [id |-> "1.1.1", type |-> "single", options |-> {"A", "B"}, answer |-> <<"A">>],
       [id |-> "2.1.2", type |-> "multi",  options |-> {"A", "B"}, answer |-> <<"A", "B">>] >>

FileB ==
    << [id |-> "1.1.1", type |-> "single", options |-> {"A", "B"}, answer |-> <<"B">>] >>

\* The banks the program finds or imports; StoreSpec works on bank "S".
SetNames == {"A", "B"}

FileOf(name) == IF name = "A" THEN FileA ELSE IF name = "B" THEN FileB ELSE FileS

\* The columns load_from_excel asks for ('题型', '等级', '题号', '题目编号',
\* '题目内容', '选项A'..'选项D', '正确答案'), and '解析', which it reads with
\* row.get.
RequiredColumns ==
    {"type", "level", "id", "qid", "content", "optA", "optB", "optC", "optD", "answer"}

\* The files that are no valid bank: file "no_c" is a table with every
\* column but c.
BadFiles ==
    {"no_type", "no_level", "no_id", "no_qid", "no_content",
     "no_optA", "no_optB", "no_optC", "no_optD", "no_answer"}

MissingIn(file_path) ==
    CASE file_path = "no_type" -> "type"       [] file_path = "no_level" -> "level"
      [] file_path = "no_id" -> "id"           [] file_path = "no_qid" -> "qid"
      [] file_path = "no_content" -> "content" [] file_path = "no_optA" -> "optA"
      [] file_path = "no_optB" -> "optB"       [] file_path = "no_optC" -> "optC"
      [] file_path = "no_optD" -> "optD"       [] file_path = "no_answer" -> "answer"

\* df.columns.  The banks are tables as transformer.py writes them, which
\* have no column '解析'.
ColumnsOf(file_path) ==
    IF file_path \in BadFiles
    THEN (RequiredColumns \cup {"explanation"}) \ {MissingIn(file_path)}
    ELSE RequiredColumns \cup {"eval_point", "job", "job_def"}

ObjIds == 1..MaxObjs

\* A slot of the heap that holds no question dict.
NoQuestion ==
    [id |-> "", type |-> "", options |-> {}, answer |-> << >>,
     answered |-> 0, correct |-> 0, wrong |-> 0, marked |-> FALSE, mastered |-> FALSE]

\* ------------------------------------------------------------------ state

VARIABLES
    qm,       \* the QuestionManager: objs (the question dicts, by identity),
              \* question_sets, set_order (the dict's key order), questions,
              \* current_question_index, current_set
    hist,     \* history per question dict: what was submitted to it
    nav,      \* history: "next" or "prev" when the last step was a call of
              \* next_question or prev_question that passed over a question,
              \* "rejected" or "unknown" when it was a load_from_excel or a
              \* set_current_set that returned failure, "raised" when it was
              \* a save_progress that raised
    n_answers,\* record_answer calls so far
    n_marks,  \* questions marked so far (StoreSpec)
    db,       \* the DatabaseManager's tables as its connection sees them
    disk,     \* the tables as committed to the database file
    win,      \* the MainWindow's own state
    n_cmds    \* commands besides answering and navigating so far (Spec);
              \* calls of load_from_excel and record_answer so far (BankSpec);
              \* answers, marks, saves and restarts so far (PersistSpec)

vars == <<qm, hist, nav, n_answers, n_marks, db, disk, win, n_cmds>>

\* What the QuestionManager's methods do not touch.
outside == <<db, disk, win, n_cmds>>

\* ------------------------------------------------------------------ heap

Range(f) == {f[i] : i \in DOMAIN f}

\* The question dicts some list still refers to.
Live(m) ==
    Range(m.questions) \cup UNION {Range(m.question_sets[n]) : n \in DOMAIN m.question_sets}

\* A dict no list refers to is gone (reference counting); its slot is blank.
Collect(m) ==
    [m EXCEPT !.objs = [o \in ObjIds |-> IF o \in Live(m) THEN m.objs[o] ELSE NoQuestion]]

\* The k-th smallest identity that no live dict has.
NthFree(m, k) ==
    LET free == ObjIds \ Live(m)
    IN  CHOOSE x \in free : Cardinality({y \in free : y < x}) = k - 1

\* ------------------------------------------------------------------ QuestionManager

QM_init ==
    [objs |-> [o \in ObjIds |-> NoQuestion],
     questions |-> << >>,
     current_question_index |-> 0,
     question_sets |-> << >>,
     set_order |-> << >>,
     current_set |-> ""]

\* The dict built for one row of the table: the row's content, all counters 0,
\* both flags false.
NewQuestion(row) ==
    [id |-> row.id, type |-> row.type, options |-> row.options, answer |-> row.answer,
     answered |-> 0, correct |-> 0, wrong |-> 0, marked |-> FALSE, mastered |-> FALSE]

\* What load_from_excel assigns once the table is read: the set is registered
\* and named current.  Neither `questions` nor current_question_index is
\* assigned.
Register(m, set_name, ids) ==
    [m EXCEPT !.question_sets = [n \in (DOMAIN m.question_sets) \cup {set_name} |->
                                    IF n = set_name THEN ids ELSE m.question_sets[n]],
              !.set_order = IF set_name \in DOMAIN m.question_sets
                            THEN @ ELSE Append(@, set_name),
              !.current_set = set_name]

\* A variant of HasColumns that does not ask for the last column.
HasColumns_but_answer(file_path) ==
    RequiredColumns \ {"answer"} \subseteq ColumnsOf(file_path)

\* all(col in df.columns for col in required_columns).
HasColumns(file_path) == RequiredColumns \subseteq ColumnsOf(file_path)

\* load_from_excel once the columns are there: the new dicts are fresh
\* objects, and the set is registered.
Loaded(m, file_path) ==
    LET rows == FileOf(file_path)
        ids  == [i \in 1..Len(rows) |-> NthFree(m, i)]
        m1   == [m EXCEPT !.objs = [o \in ObjIds |->
                     IF \E i \in 1..Len(rows) : ids[i] = o
                     THEN NewQuestion(rows[CHOOSE i \in 1..Len(rows) : ids[i] = o])
                     ELSE m.objs[o]]]
    IN  Collect(Register(m1, file_path, ids))

\* load_from_excel(file_path): the result is the manager and the returned
\* success flag; the ValueError for a missing column is caught and returns
\* (False, message).
QM_load_from_excel(m, file_path) ==
    IF HasColumns(file_path)
    THEN [qm |-> Loaded(m, file_path), ret |-> TRUE]
    ELSE [qm |-> m, ret |-> FALSE]

\* load_from_excel needs a free identity for every row it turns into a dict.
CanLoad(m, file_path) ==
    HasColumns(file_path) => Cardinality(ObjIds \ Live(m)) >= Len(FileOf(file_path))

\* A variant of set_current_set that names the set current before it looks
\* the name up.
QM_set_current_set_names(m, set_name) ==
    IF set_name \in DOMAIN m.question_sets
    THEN [qm |-> Collect([m EXCEPT !.current_set = set_name,
                                   !.questions = m.question_sets[set_name],
                                   !.current_question_index = 0]),
          ret |-> TRUE]
    ELSE [qm |-> [m EXCEPT !.current_set = set_name], ret |-> FALSE]

\* A variant of set_current_set that leaves the cursor where it is.
QM_set_current_set_keeps(m, set_name) ==
    IF set_name \in DOMAIN m.question_sets
    THEN [qm |-> Collect([m EXCEPT !.current_set = set_name,
                                   !.questions = m.question_sets[set_name]]),
          ret |-> TRUE]
    ELSE [qm |-> m, ret |-> FALSE]

QM_set_current_set(m, set_name) ==
    IF set_name \in DOMAIN m.question_sets
    THEN [qm |-> Collect([m EXCEPT !.current_set = set_name,
                                   !.questions = m.question_sets[set_name],
                                   !.current_question_index = 0]),
          ret |-> TRUE]
    ELSE [qm |-> m, ret |-> FALSE]

\* questions[current_question_index] raises IndexError.
IndexError(m) ==
    m.questions # << >> /\ m.current_question_index >= Len(m.questions)

\* get_current_question: the identity of the current dict, 0 for None.
\* (Callers check IndexError first.)
QM_get_current_question(m) ==
    IF m.questions = << >> THEN 0 ELSE m.questions[m.current_question_index + 1]

Mastered(m, i) == m.objs[m.questions[i + 1]].mastered

\* for i in range(start, len(questions)): the first i that is not mastered,
\* -1 when the loop ends without one.
RECURSIVE NextScan(_, _)
NextScan(m, i) ==
    IF i >= Len(m.questions) THEN -1
    ELSE IF ~Mastered(m, i) THEN i
    ELSE NextScan(m, i + 1)

\* for i in range(start, -1, -1): the first i that is not mastered, -1 when the
\* loop ends without one, -2 when questions[i] raises IndexError.
RECURSIVE PrevScan(_, _)
PrevScan(m, i) ==
    IF i < 0 THEN -1
    ELSE IF i >= Len(m.questions) THEN -2
    ELSE IF ~Mastered(m, i) THEN i
    ELSE PrevScan(m, i - 1)

\* A variant of NextStart that scans from the cursor itself.
NextStart_here(m) == m.current_question_index

NextStart(m) == m.current_question_index + 1

PrevStart(m) == m.current_question_index - 1

\* A variant of next_question that goes to the last question when the scan
\* finds none.
QM_next_question_last(m) ==
    LET i == NextScan(m, NextStart(m))
    IN  IF i >= 0 THEN [qm |-> [m EXCEPT !.current_question_index = i], ret |-> TRUE]
        ELSE [qm |-> [m EXCEPT !.current_question_index = Len(m.questions) - 1],
              ret |-> FALSE]

QM_next_question(m) ==
    LET i == NextScan(m, NextStart(m))
    IN  IF i >= 0 THEN [qm |-> [m EXCEPT !.current_question_index = i], ret |-> TRUE]
        ELSE [qm |-> m, ret |-> FALSE]

QM_prev_question(m) ==
    LET i == PrevScan(m, PrevStart(m))
    IN  IF i >= 0 THEN [qm |-> [m EXCEPT !.current_question_index = i], ret |-> TRUE]
        ELSE [qm |-> m, ret |-> FALSE]

\* The loops of prev_question_exists and next_question_exists.
RECURSIVE PrevExistsScan(_, _)
PrevExistsScan(m, i) ==
    IF i < 0 THEN FALSE
    ELSE IF i >= Len(m.questions) THEN FALSE
    ELSE IF ~Mastered(m, i) THEN TRUE
    ELSE PrevExistsScan(m, i - 1)

RECURSIVE NextExistsScan(_, _)
NextExistsScan(m, i) ==
    IF i >= Len(m.questions) THEN FALSE
    ELSE IF ~Mastered(m, i) THEN TRUE
    ELSE NextExistsScan(m, i + 1)

QM_prev_question_exists(m) == PrevExistsScan(m, m.current_question_index - 1)

\* A variant of next_question_exists that scans from the cursor itself.
QM_next_question_exists_here(m) == NextExistsScan(m, m.current_question_index)

QM_next_question_exists(m) == NextExistsScan(m, m.current_question_index + 1)

\* A variant of the correct branch that sets mastered at the first correct
\* answer.
AnsweredCorrect_once(q) ==
    [q EXCEPT !.answered = @ + 1, !.correct = @ + 1, !.mastered = TRUE]

\* A variant of AnsweredCorrect that asks for three correct answers.
AnsweredCorrect_three(q) ==
    LET c == q.correct + 1
    IN  [q EXCEPT !.answered = @ + 1,
                  !.correct = c,
                  !.mastered = IF c >= 3 /\ ~q.mastered THEN TRUE ELSE @]

\* record_answer, the branch is_correct.
AnsweredCorrect(q) ==
    LET c == q.correct + 1
    IN  [q EXCEPT !.answered = @ + 1,
                  !.correct = c,
                  !.mastered = IF c >= 2 /\ ~q.mastered THEN TRUE ELSE @]

\* A variant of AnsweredWrong that keeps the streak.
AnsweredWrong_keeps(q) ==
    [q EXCEPT !.answered = @ + 1, !.wrong = @ + 1]

\* record_answer, the else branch.
AnsweredWrong(q) ==
    [q EXCEPT !.answered = @ + 1, !.wrong = @ + 1, !.correct = 0]

\* A variant of record_answer that counts the answer for every question of
\* the list.
QM_record_answer_all(m, is_correct) ==
    [m EXCEPT !.objs = [o \in ObjIds |->
        IF o \in Range(m.questions)
        THEN (IF is_correct THEN AnsweredCorrect(m.objs[o]) ELSE AnsweredWrong(m.objs[o]))
        ELSE m.objs[o]]]

QM_record_answer(m, is_correct) ==
    LET o == QM_get_current_question(m)
    IN  IF o = 0 THEN m
        ELSE [m EXCEPT !.objs[o] = IF is_correct THEN AnsweredCorrect(@)
                                   ELSE AnsweredWrong(@)]

\* A variant of ResetSkips that ignores exclude_mastered.
ResetSkips_never(q, exclude_mastered) == FALSE

\* reset_progress: the loop's `continue`.
ResetSkips(q, exclude_mastered) == exclude_mastered /\ q.mastered

\* A variant of ResetQuestion that clears the long-lived counters too.
ResetQuestion_all(q) ==
    [q EXCEPT !.answered = 0, !.marked = FALSE, !.correct = 0, !.wrong = 0]

\* reset_progress: the assignments of one iteration.
ResetQuestion(q) == [q EXCEPT !.answered = 0, !.marked = FALSE]

QM_reset_progress(m, exclude_mastered) ==
    [m EXCEPT !.objs = [o \in ObjIds |->
        IF o \in Range(m.questions) /\ ~ResetSkips(m.objs[o], exclude_mastered)
        THEN ResetQuestion(m.objs[o]) ELSE m.objs[o]]]

\* A variant of Releases with a strict comparison.
Releases_above(q, threshold) == q.mastered /\ q.wrong > threshold

\* release_mastered_questions_by_wrong_count: the loop's condition.
Releases(q, threshold) == q.mastered /\ q.wrong >= threshold

\* A variant of ReleaseQuestion that keeps the streak.
ReleaseQuestion_keeps(q) == [q EXCEPT !.mastered = FALSE]

\* release_mastered_questions_by_wrong_count: the assignments of one iteration.
ReleaseQuestion(q) == [q EXCEPT !.mastered = FALSE, !.correct = 0]

Released(m, threshold) ==
    {o \in Range(m.questions) : Releases(m.objs[o], threshold)}

QM_release_mastered_questions_by_wrong_count(m, threshold) ==
    [qm |-> [m EXCEPT !.objs = [o \in ObjIds |->
                 IF o \in Released(m, threshold)
                 THEN ReleaseQuestion(m.objs[o]) ELSE m.objs[o]]],
     ret |-> Cardinality(Released(m, threshold))]

\* A variant of get_progress whose correct count is of the questions answered
\* correctly twice in a row.
QM_get_progress_twice(m) ==
    LET at(P(_)) == Cardinality({i \in 1..Len(m.questions) : P(m.objs[m.questions[i]])})
        mastered == at(LAMBDA q : q.mastered)
    IN  [total |-> Len(m.questions),
         answered |-> at(LAMBDA q : q.answered > 0),
         correct |-> at(LAMBDA q : q.correct > 1),
         mastered |-> mastered,
         unmastered |-> Len(m.questions) - mastered]

\* get_progress(): total, answered, correct, mastered, unmastered, counted
\* over self.questions.
QM_get_progress(m) ==
    LET at(P(_)) == Cardinality({i \in 1..Len(m.questions) : P(m.objs[m.questions[i]])})
        mastered == at(LAMBDA q : q.mastered)
    IN  [total |-> Len(m.questions),
         answered |-> at(LAMBDA q : q.answered > 0),
         correct |-> at(LAMBDA q : q.correct > 0),
         mastered |-> mastered,
         unmastered |-> Len(m.questions) - mastered]

\* MainWindow.toggle_mark_question: question['marked'] = mark_btn.isChecked().
SetMarked(m, checked) ==
    LET o == QM_get_current_question(m)
    IN  IF o = 0 THEN m ELSE [m EXCEPT !.objs[o].marked = checked]


\* ------------------------------------------------------------------ DatabaseManager

\* The key of app_state that holds a set's cursor: f'last_position_{set_name}'.
PositionKey(set_name) ==
    IF set_name = "A" THEN "last_position_A"
    ELSE IF set_name = "B" THEN "last_position_B" ELSE "last_position_S"

\* The tables after create_tables on a new file: both empty.  user_progress is
\* the rows in rowid order, app_state a function from the keys present.
DB_init == [user_progress |-> << >>, app_state |-> << >>]

\* int(q['marked']), int(q['mastered']) and bool(marked), bool(mastered).
IntOf(b) == IF b THEN 1 ELSE 0

BoolOf(i) == i # 0

\* The row save_progress inserts for one question dict.  Column question_id
\* is declared INTEGER, which leaves a text that is no numeric literal, as the
\* ids of form 1.1.1 are, as it is.
ProgressRow(q, set_name) ==
    [question_id |-> q.id, answered |-> q.answered, correct |-> q.correct,
     wrong |-> q.wrong, marked |-> IntOf(q.marked), mastered |-> IntOf(q.mastered),
     set_name |-> set_name]

\* Column value of app_state is TEXT: an integer written to it is stored as
\* its decimal text, and load_progress reads it back with int().
Digit(n) == <<"0", "1", "2", "3", "4", "5", "6", "7", "8", "9">>[n + 1]

RECURSIVE TextOf(_)
TextOf(n) == IF n < 10 THEN Digit(n) ELSE TextOf(n \div 10) \o Digit(n % 10)

ParseInt(text) == CHOOSE n \in 0..99 : TextOf(n) = text

\* INSERT OR REPLACE INTO app_state (key, value).
Upsert(app_state, key, value) ==
    [k \in (DOMAIN app_state) \cup {key} |-> IF k = key THEN value ELSE app_state[k]]

\* A variant of save_progress without the DELETE.
DB_save_progress_appends(d, objs, questions, current_index, set_name) ==
    LET new  == [i \in 1..Len(questions) |-> ProgressRow(objs[questions[i]], set_name)]
    IN  [user_progress |-> d.user_progress \o new,
         app_state |-> Upsert(Upsert(d.app_state, PositionKey(set_name), TextOf(current_index)),
                              "last_set", set_name)]

\* save_progress(questions, current_index, set_name): DELETE the set's rows,
\* INSERT one row per dict of the list, write the two pointers, commit.
DB_save_progress(d, objs, questions, current_index, set_name) ==
    LET kept == SelectSeq(d.user_progress, LAMBDA r : r.set_name # set_name)
        new  == [i \in 1..Len(questions) |-> ProgressRow(objs[questions[i]], set_name)]
    IN  [user_progress |-> kept \o new,
         app_state |-> Upsert(Upsert(d.app_state, PositionKey(set_name), TextOf(current_index)),
                              "last_set", set_name)]

\* save_progress when a statement raises: the DELETE ran, then k statements
\* of the INSERTs and the pointer writes that follow.  The method has no
\* try, so the exception leaves it before conn.commit(): the statements
\* that ran stay in the connection's open transaction, seen by its later
\* queries and committed by its next commit.
DB_save_progress_raises(d, objs, questions, current_index, set_name, k) ==
    LET kept == SelectSeq(d.user_progress, LAMBDA r : r.set_name # set_name)
        new  == [i \in 1..Len(questions) |-> ProgressRow(objs[questions[i]], set_name)]
        n    == IF k <= Len(questions) THEN k ELSE Len(questions)
    IN  [user_progress |-> kept \o SubSeq(new, 1, n),
         app_state |-> IF k > Len(questions)
                       THEN Upsert(d.app_state, PositionKey(set_name), TextOf(current_index))
                       ELSE d.app_state]

\* load_progress(set_name): the set's rows, its saved cursor (0 when absent)
\* and the last set ("" for None).
DB_load_progress(d, set_name) ==
    [rows |-> SelectSeq(d.user_progress, LAMBDA r : r.set_name = set_name),
     last_position |-> IF PositionKey(set_name) \in DOMAIN d.app_state
                       THEN ParseInt(d.app_state[PositionKey(set_name)]) ELSE 0,
     last_set |-> IF "last_set" \in DOMAIN d.app_state
                  THEN d.app_state["last_set"] ELSE ""]

\* A variant of the lookup that gives the first dict of the list when the id
\* is no key.
IdToQuestion_default(objs, questions, q_id) ==
    LET at == {i \in 1..Len(questions) : objs[questions[i]].id = q_id}
    IN  IF at = {} THEN (IF questions = << >> THEN 0 ELSE questions[1])
        ELSE questions[CHOOSE i \in at : \A j \in at : j <= i]

\* id_to_question = {q['id']: q for q in questions}: of the dicts with one id
\* the last in the list, 0 when the id is not a key.
IdToQuestion(objs, questions, q_id) ==
    LET at == {i \in 1..Len(questions) : objs[questions[i]].id = q_id}
    IN  IF at = {} THEN 0
        ELSE questions[CHOOSE i \in at : \A j \in at : j <= i]

\* A variant of the assignments that leaves the dict's wrong count alone.
ApplyRow_keeps_wrong(q, row) ==
    [q EXCEPT !.answered = row.answered, !.correct = row.correct,
              !.marked = BoolOf(row.marked), !.mastered = BoolOf(row.mastered)]

\* The five assignments that apply one row to a dict.
ApplyRow(q, row) ==
    [q EXCEPT !.answered = row.answered, !.correct = row.correct, !.wrong = row.wrong,
              !.marked = BoolOf(row.marked), !.mastered = BoolOf(row.mastered)]

\* for row in progress_rows: if q_id in id_to_question: ... (rows in order).
RECURSIVE ApplyRows(_, _, _)
ApplyRows(objs, questions, rows) ==
    IF rows = << >> THEN objs
    ELSE LET o == IdToQuestion(objs, questions, Head(rows).question_id)
         IN  ApplyRows(IF o = 0 THEN objs
                       ELSE [objs EXCEPT ![o] = ApplyRow(@, Head(rows))],
                       questions, Tail(rows))

\* save_all_progress(question_manager): DELETE every row, INSERT one row per
\* dict of every registered set in the order of question_sets.items(), write
\* the one key last_position and last_set, commit.
RECURSIVE AllRows(_, _)
AllRows(m, names) ==
    IF names = << >> THEN << >>
    ELSE [i \in 1..Len(m.question_sets[Head(names)]) |->
              ProgressRow(m.objs[m.question_sets[Head(names)][i]], Head(names))]
         \o AllRows(m, Tail(names))

DB_save_all_progress(d, m) ==
    [user_progress |-> AllRows(m, m.set_order),
     app_state |-> Upsert(Upsert(d.app_state, "last_position",
                                 TextOf(m.current_question_index)),
                          "last_set", m.current_set)]

\* for q in question_sets[set_name]: if q['id'] == q_id: ...; break: the first
\* dict of the list with the id, 0 when there is none.
FirstWithId(objs, questions, q_id) ==
    LET at == {i \in 1..Len(questions) : objs[questions[i]].id = q_id}
    IN  IF at = {} THEN 0
        ELSE questions[CHOOSE i \in at : \A j \in at : i <= j]

\* A variant of the row loop of load_all_progress that looks for the id in
\* every registered set.
RECURSIVE ApplyAllRows_any_set(_, _)
ApplyAllRows_any_set(m, rows) ==
    IF rows = << >> THEN m
    ELSE LET os == {FirstWithId(m.objs, m.question_sets[n], Head(rows).question_id) :
                        n \in DOMAIN m.question_sets} \ {0}
         IN  ApplyAllRows_any_set(
                 [m EXCEPT !.objs = [o \in ObjIds |->
                      IF o \in os THEN ApplyRow(m.objs[o], Head(rows)) ELSE m.objs[o]]],
                 Tail(rows))

\* The row loop of load_all_progress: a row of a set that is not registered,
\* or with an id no dict of its set has, is passed over.
RECURSIVE ApplyAllRows(_, _)
ApplyAllRows(m, rows) ==
    IF rows = << >> THEN m
    ELSE LET row == Head(rows)
             o   == IF row.set_name \in DOMAIN m.question_sets
                    THEN FirstWithId(m.objs, m.question_sets[row.set_name], row.question_id)
                    ELSE 0
         IN  ApplyAllRows(IF o = 0 THEN m
                          ELSE [m EXCEPT !.objs[o] = ApplyRow(@, row)],
                          Tail(rows))

\* load_all_progress(question_manager): every row applied, and the returned
\* last_position (0 when absent) and last_set ("" for None).
DB_load_all_progress(d, m) ==
    [qm |-> ApplyAllRows(m, d.user_progress),
     last_position |-> IF "last_position" \in DOMAIN d.app_state
                       THEN ParseInt(d.app_state["last_position"]) ELSE 0,
     last_set |-> IF "last_set" \in DOMAIN d.app_state
                  THEN d.app_state["last_set"] ELSE ""]

\* ------------------------------------------------------------------ MainWindow
\* The handlers are operators on a world w = [qm, db, win]: the manager, the
\* database and the window's own state.  win holds
\*   running         the process is alive
\*   initialized     self.initialized
\*   showing_answer  self.showing_answer
\*   shown           the dict show_question displayed last (0: none)
\*   options, is_multiple, checked   the answer widget's buttons and the
\*                   checked ones
\*   mark_btn        mark_btn.isChecked()
\*   prev_enabled, next_enabled      the navigation buttons
\*   wrong_list      the ids listed by refresh_wrong_list
\*   combo_items, combo_index        set_combo (index -1: no current item)
\*   timers          pending QTimer.singleShot callbacks, by callback:
\*                   emit (answer_selected.emit), submit (submit_answer),
\*                   next (next_question)

NoTimers == [emit |-> 0, submit |-> 0, next |-> 0]

\* The window before load_question_sets runs (MainWindow.__init__), and, with
\* running false, the window of a process that is not running.
WinInit(running) ==
    [running |-> running, initialized |-> FALSE, showing_answer |-> FALSE,
     shown |-> 0, options |-> {}, is_multiple |-> FALSE, checked |-> {},
     mark_btn |-> FALSE, prev_enabled |-> FALSE, next_enabled |-> FALSE,
     wrong_list |-> << >>, combo_items |-> << >>, combo_index |-> -1,
     timers |-> NoTimers]

\* set_combo.currentText().
CurrentText(window) ==
    IF window.combo_index >= 0 THEN window.combo_items[window.combo_index + 1] ELSE ""

\* The dicts a list no longer refers to are gone; a shown dict that is gone
\* is no longer the one on display.
Sweep(w) ==
    [w EXCEPT !.qm = Collect(w.qm),
              !.win.shown = IF @ \in Live(w.qm) THEN @ ELSE 0]

\* save_current_progress.
MW_save_current_progress(w) ==
    IF w.win.initialized /\ w.qm.current_set # "" /\ w.qm.questions # << >>
    THEN [w EXCEPT !.db = DB_save_progress(w.db, w.qm.objs, w.qm.questions,
                                           w.qm.current_question_index,
                                           w.qm.current_set)]
    ELSE w

\* refresh_wrong_list: the ids of get_wrong_questions(), in list order.
MW_refresh_wrong_list(w) ==
    LET wrong == SelectSeq(w.qm.questions, LAMBDA o : w.qm.objs[o].wrong > 0)
    IN  [w EXCEPT !.win.wrong_list = [i \in 1..Len(wrong) |-> w.qm.objs[wrong[i]].id]]

\* show_question raises when get_current_question does.
ShowRaises(w) == IndexError(w.qm)

\* show_question, when it does not raise: nothing for None; else the answer
\* widget is rebuilt for the current dict, the buttons are set and
\* showing_answer is cleared.
MW_show_question(w) ==
    LET o == QM_get_current_question(w.qm)
    IN  IF o = 0 THEN w
        ELSE [w EXCEPT !.win.shown = o,
                       !.win.options = w.qm.objs[o].options,
                       !.win.is_multiple = (w.qm.objs[o].type = "multi"),
                       !.win.checked = {},
                       !.win.mark_btn = w.qm.objs[o].marked,
                       !.win.prev_enabled = QM_prev_question_exists(w.qm),
                       !.win.next_enabled = QM_next_question_exists(w.qm),
                       !.win.showing_answer = FALSE]

\* A handler that calls show_question and then only refreshes labels and the
\* wrong list: the refresh is skipped when show_question raises.
ShowThenRefresh(w) ==
    IF ShowRaises(w) THEN w ELSE MW_refresh_wrong_list(MW_show_question(w))

\* The rows are applied only `if progress_rows:`; then the cursor is set.
ApplyProgress(w, loaded) ==
    [w EXCEPT !.qm.objs = ApplyRows(@, w.qm.questions, loaded.rows),
              !.qm.current_question_index = loaded.last_position]

\* change_question_set, the slot of set_combo.currentIndexChanged.
MW_change_question_set(w) ==
    LET set_name == CurrentText(w.win)
    IN  IF set_name # "" /\ set_name \in DOMAIN w.qm.question_sets
        THEN LET w1 == MW_save_current_progress(w)
                 w2 == Sweep([w1 EXCEPT !.qm = QM_set_current_set(w1.qm, set_name).qm])
                 w3 == ApplyProgress(w2, DB_load_progress(w2.db, set_name))
             IN  ShowThenRefresh(w3)
        ELSE w

\* set_combo.clear(): the slot runs with no current text and does nothing.
ComboClear(w) ==
    [w EXCEPT !.win.combo_items = << >>, !.win.combo_index = -1]

\* set_combo.addItems(keys): an empty combo box makes its first item current
\* and emits currentIndexChanged.
ComboAddItems(w, keys) ==
    IF w.win.combo_index = -1 /\ keys # << >>
    THEN MW_change_question_set([w EXCEPT !.win.combo_items = @ \o keys,
                                          !.win.combo_index = 0])
    ELSE [w EXCEPT !.win.combo_items = @ \o keys]

\* Making item i current emits currentIndexChanged when i is not current.
ComboSetCurrentIndex(w, i) ==
    IF i # w.win.combo_index
    THEN MW_change_question_set([w EXCEPT !.win.combo_index = i])
    ELSE w

\* set_combo.setCurrentText(text): the item with that text becomes current.
ComboSetCurrentText(w, text) ==
    LET at == {i \in 1..Len(w.win.combo_items) : w.win.combo_items[i] = text}
    IN  IF at = {} THEN w
        ELSE ComboSetCurrentIndex(w, (CHOOSE i \in at : \A j \in at : i <= j) - 1)

\* A variant of show_first_unmastered_question that leaves the cursor where
\* it is.
FirstUnmastered_stays(m) == m

\* show_first_unmastered_question, up to the call of show_question.
FirstUnmastered(m) ==
    LET i == NextScan(m, 0)
    IN  IF i >= 0 THEN [m EXCEPT !.current_question_index = i] ELSE m

\* for file_path in question_files: load_from_excel(file_path).
RECURSIVE LoadAll(_, _)
LoadAll(m, files) ==
    IF files = << >> THEN m
    ELSE LoadAll(QM_load_from_excel(m, Head(files)).qm, Tail(files))

\* load_question_sets from `# 更新题库选择下拉框` to the cursor assignment:
\* the combo box is filled, the last set (or else the first) is made current
\* and its saved progress and cursor are applied.
RestoreLastSet(w) ==
    LET w1 == ComboAddItems(ComboClear(w), w.qm.set_order)
        last_set == DB_load_progress(w1.db, "").last_set
        name == IF last_set # "" /\ last_set \in DOMAIN w1.qm.question_sets
                THEN last_set ELSE w1.qm.set_order[1]
        w2 == Sweep([w1 EXCEPT !.qm = QM_set_current_set(w1.qm, name).qm])
        w3 == ComboSetCurrentText(w2, name)
    IN  ApplyProgress(w3, DB_load_progress(w3.db, name))

\* load_question_sets(), with `files` the bank files glob finds.  An exception
\* of show_question is caught by the handler's except clause, which leaves
\* initialized false.
MW_load_question_sets(w, files) ==
    IF files = << >> THEN w
    ELSE LET w1 == RestoreLastSet([w EXCEPT !.qm = LoadAll(w.qm, files)])
         IN  IF ShowRaises(w1) THEN w1
             ELSE [MW_refresh_wrong_list(MW_show_question(w1))
                      EXCEPT !.win.initialized = TRUE]

\* import_questions with the file the dialog returns.
MW_import_questions(w, file_path) ==
    LET w1 == [w EXCEPT !.qm = QM_load_from_excel(w.qm, file_path).qm]
        w2 == ComboAddItems(ComboClear(w1), w1.qm.set_order)
        w3 == ComboSetCurrentText(w2, w2.qm.current_set)
        w4 == [w3 EXCEPT !.qm = FirstUnmastered(w3.qm)]
    IN  Sweep(ShowThenRefresh(w4))

OptionLetters == <<"A", "B", "C", "D">>

\* get_selected_answers: the letters of the checked buttons, in button order.
Selected(window) == SelectSeq(OptionLetters, LAMBDA l : l \in window.checked)

\* A variant of Records without the check of showing_answer.
Records_again(w) ==
    /\ ~IndexError(w.qm)
    /\ QM_get_current_question(w.qm) # 0
    /\ Selected(w.win) # << >>

\* submit_answer gets as far as record_answer.
Records(w) ==
    /\ ~w.win.showing_answer
    /\ ~IndexError(w.qm)
    /\ QM_get_current_question(w.qm) # 0
    /\ Selected(w.win) # << >>

\* is_correct = selected == question['answer'].
IsCorrect(w) == Selected(w.win) = w.qm.objs[QM_get_current_question(w.qm)].answer

\* submit_answer: the answer is recorded, the wrong list refreshed, and a
\* correct answer schedules next_question.
MW_submit_answer(w) ==
    IF ~Records(w) THEN w
    ELSE LET w1 == [w EXCEPT !.qm = QM_record_answer(w.qm, IsCorrect(w))]
             w2 == MW_refresh_wrong_list(w1)
         IN  [w2 EXCEPT !.win.showing_answer = TRUE,
                        !.win.timers.next = IF IsCorrect(w) THEN @ + 1 ELSE @]

\* next_question (the handler).
MW_next_question(w) ==
    LET r == QM_next_question(w.qm)
    IN  IF r.ret
        THEN IF ShowRaises([w EXCEPT !.qm = r.qm]) THEN [w EXCEPT !.qm = r.qm]
             ELSE MW_show_question([w EXCEPT !.qm = r.qm])
        ELSE LET m1 == FirstUnmastered(QM_reset_progress(w.qm, TRUE))
             IN  ShowThenRefresh([w EXCEPT !.qm = m1])

\* prev_question (the handler); prev_question of the manager may raise.
MW_prev_question(w) ==
    IF PrevScan(w.qm, PrevStart(w.qm)) = -2 THEN w
    ELSE LET r == QM_prev_question(w.qm)
         IN  IF r.ret /\ ~ShowRaises([w EXCEPT !.qm = r.qm])
             THEN MW_show_question([w EXCEPT !.qm = r.qm])
             ELSE [w EXCEPT !.qm = r.qm]

\* auto_submit_answer, the slot of answer_selected.
MW_auto_submit_answer(w) ==
    IF IndexError(w.qm) \/ QM_get_current_question(w.qm) = 0 THEN w
    ELSE IF w.qm.objs[QM_get_current_question(w.qm)].type \in {"single", "judge"}
    THEN [w EXCEPT !.win.timers.submit = @ + 1]
    ELSE w

\* A click on the button of option `letter`: a check box toggles; a radio
\* button that was not checked becomes the checked one and, through
\* _on_radio_toggled, schedules answer_selected.emit.
ClickOption(w, letter) ==
    IF w.win.is_multiple
    THEN [w EXCEPT !.win.checked = IF letter \in @ THEN @ \ {letter} ELSE @ \cup {letter}]
    ELSE IF letter \in w.win.checked THEN w
    ELSE [w EXCEPT !.win.checked = {letter}, !.win.timers.emit = @ + 1]

\* toggle_mark_question after a click on mark_btn, which flips the button.
MW_toggle_mark_question(w) ==
    LET checked == ~w.win.mark_btn
    IN  IF IndexError(w.qm) THEN [w EXCEPT !.win.mark_btn = checked]
        ELSE [w EXCEPT !.win.mark_btn = checked, !.qm = SetMarked(w.qm, checked)]

\* open_wrong_question for the k-th item of the wrong list.
MW_open_wrong_question(w, k) ==
    LET q_id == w.win.wrong_list[k]
        at == {i \in 1..Len(w.qm.questions) : w.qm.objs[w.qm.questions[i]].id = q_id}
    IN  IF at = {} THEN w
        ELSE MW_show_question(
                 [w EXCEPT !.qm.current_question_index =
                               (CHOOSE i \in at : \A j \in at : i <= j) - 1])

\* practice_wrong_questions.
MW_practice_wrong_questions(w) ==
    LET wrong == SelectSeq(w.qm.questions, LAMBDA o : w.qm.objs[o].wrong > 0)
    IN  IF wrong = << >> THEN w
        ELSE Sweep(MW_show_question([w EXCEPT !.qm.questions = wrong,
                                              !.qm.current_question_index = 0]))

\* release_mastered_questions with the threshold the dialog returns.
MW_release_mastered_questions(w, threshold) ==
    IF \A o \in Range(w.qm.questions) : ~w.qm.objs[o].mastered THEN w
    ELSE LET m1 == QM_release_mastered_questions_by_wrong_count(w.qm, threshold).qm
             w1 == MW_refresh_wrong_list([w EXCEPT !.qm = m1])
             m2 == FirstUnmastered(QM_reset_progress(w1.qm, TRUE))
         IN  IF ShowRaises([w1 EXCEPT !.qm = m2]) THEN [w1 EXCEPT !.qm = m2]
             ELSE MW_show_question([w1 EXCEPT !.qm = m2])

\* closeEvent, after which the process ends: the manager and the window are
\* gone, the database file stays.
MW_closeEvent(w) ==
    LET w1 == IF w.win.initialized THEN MW_save_current_progress(w) ELSE w
    IN  [qm |-> QM_init, db |-> w1.db, win |-> WinInit(FALSE)]

\* ------------------------------------------------------------------ history

\* What was submitted to a question dict since it was created:
\*   streak   correct submissions since the last wrong one (or creation),
\*   run      correct submissions since the last wrong one, the last release of
\*            the question (or creation),
\*   wrongs   wrong submissions,
\*   released whether a release ever cleared its mastered flag.
NoHist == [streak |-> 0, run |-> 0, wrongs |-> 0, released |-> FALSE]

HistSubmitted(h, o, is_correct) ==
    IF o = 0 THEN h
    ELSE IF is_correct
    THEN [h EXCEPT ![o].streak = @ + 1, ![o].run = @ + 1]
    ELSE [h EXCEPT ![o].streak = 0, ![o].run = 0, ![o].wrongs = @ + 1]

HistReleased(h, os) ==
    [o \in ObjIds |-> IF o \in os THEN [h[o] EXCEPT !.run = 0, !.released = TRUE] ELSE h[o]]

HistCollect(h, m) ==
    [o \in ObjIds |-> IF o \in Live(m) THEN h[o] ELSE NoHist]

NoNav == ""

\* Whether a navigation call moved the cursor past a question.
Moved(dir, m, r) ==
    IF r.ret /\ (r.qm.current_question_index - m.current_question_index) \notin {-1, 1}
    THEN dir ELSE NoNav

\* Whether a call of load_from_excel or set_current_set returned failure.
Refused(what, r) == IF r.ret THEN NoNav ELSE what

\* ------------------------------------------------------------------ StoreSpec
\* The QuestionManager driven through its methods, in any order, on the bank
\* of FileA: the state after QuestionManager(), load_from_excel and
\* set_current_set.

StoreInit ==
    /\ qm = QM_set_current_set(QM_load_from_excel(QM_init, "S").qm, "S").qm
    /\ hist = [o \in ObjIds |-> NoHist]
    /\ nav = NoNav
    /\ n_answers = 0
    /\ n_marks = 0
    /\ db = DB_init
    /\ disk = DB_init
    /\ win = WinInit(FALSE)
    /\ n_cmds = 0

S_next_question ==
    /\ qm' = QM_next_question(qm).qm
    /\ nav' = Moved("next", qm, QM_next_question(qm))
    /\ UNCHANGED <<hist, n_answers, n_marks, outside>>

S_prev_question ==
    /\ qm' = QM_prev_question(qm).qm
    /\ nav' = Moved("prev", qm, QM_prev_question(qm))
    /\ UNCHANGED <<hist, n_answers, n_marks, outside>>

S_record_answer(is_correct) ==
    /\ n_answers < MaxAnswers
    /\ qm' = QM_record_answer(qm, is_correct)
    /\ hist' = HistSubmitted(hist, QM_get_current_question(qm), is_correct)
    /\ n_answers' = n_answers + 1
    /\ nav' = NoNav
    /\ UNCHANGED <<n_marks, outside>>

S_reset_progress(exclude_mastered) ==
    /\ qm' = QM_reset_progress(qm, exclude_mastered)
    /\ nav' = NoNav
    /\ UNCHANGED <<hist, n_answers, n_marks, outside>>

S_release_mastered(threshold) ==
    /\ qm' = QM_release_mastered_questions_by_wrong_count(qm, threshold).qm
    /\ hist' = HistReleased(hist, Released(qm, threshold))
    /\ nav' = NoNav
    /\ UNCHANGED <<n_answers, n_marks, outside>>

S_toggle_mark(checked) ==
    /\ checked => n_marks < MaxMarks
    /\ qm' = SetMarked(qm, checked)
    /\ n_marks' = IF checked THEN n_marks + 1 ELSE n_marks
    /\ nav' = NoNav
    /\ UNCHANGED <<hist, n_answers, outside>>

StoreNext ==
    \/ S_next_question
    \/ S_prev_question
    \/ \E is_correct \in BOOLEAN : S_record_answer(is_correct)
    \/ \E exclude_mastered \in BOOLEAN : S_reset_progress(exclude_mastered)
    \/ \E threshold \in 0..MaxThreshold : S_release_mastered(threshold)
    \/ \E checked \in BOOLEAN : S_toggle_mark(checked)

StoreSpec == StoreInit /\ [][StoreNext]_vars

\* ------------------------------------------------------------------ BankSpec
\* The QuestionManager from its construction on: banks are loaded, good
\* files and files with a column missing, and sets are made current, by
\* registered names and by a name that is not registered, between the
\* calls that answer, navigate and mark.

UnknownSet == "Z"

BankInit ==
    /\ qm = QM_init
    /\ hist = [o \in ObjIds |-> NoHist]
    /\ nav = NoNav
    /\ n_answers = 0
    /\ n_marks = 0
    /\ db = DB_init
    /\ disk = DB_init
    /\ win = WinInit(FALSE)
    /\ n_cmds = 0

K_load_from_excel(file_path) ==
    /\ n_cmds < MaxCalls
    /\ CanLoad(qm, file_path)
    /\ qm' = QM_load_from_excel(qm, file_path).qm
    /\ hist' = HistCollect(hist, QM_load_from_excel(qm, file_path).qm)
    /\ nav' = Refused("rejected", QM_load_from_excel(qm, file_path))
    /\ n_cmds' = n_cmds + 1
    /\ UNCHANGED <<n_answers, n_marks, db, disk, win>>

K_set_current_set(set_name) ==
    /\ qm' = QM_set_current_set(qm, set_name).qm
    /\ hist' = HistCollect(hist, QM_set_current_set(qm, set_name).qm)
    /\ nav' = Refused("unknown", QM_set_current_set(qm, set_name))
    /\ UNCHANGED <<n_answers, n_marks, outside>>

K_record_answer(is_correct) ==
    /\ n_cmds < MaxCalls
    /\ qm' = QM_record_answer(qm, is_correct)
    /\ hist' = HistSubmitted(hist, QM_get_current_question(qm), is_correct)
    /\ n_cmds' = n_cmds + 1
    /\ nav' = NoNav
    /\ UNCHANGED <<n_answers, n_marks, db, disk, win>>

BankNext ==
    \/ \E file_path \in SetNames \cup BadFiles : K_load_from_excel(file_path)
    \/ \E set_name \in SetNames \cup {UnknownSet} : K_set_current_set(set_name)
    \/ \E is_correct \in BOOLEAN : K_record_answer(is_correct)
    \/ S_next_question
    \/ S_prev_question
    \/ \E checked \in BOOLEAN : S_toggle_mark(checked)

BankSpec == BankInit /\ [][BankNext]_vars

\* ------------------------------------------------------------------ PersistSpec
\* The QuestionManager and the DatabaseManager together: banks A and B are
\* loaded, answers are recorded, the current set's progress is saved, with
\* or without a statement that raises, sets are switched with the saved
\* progress applied, and the program is started anew on the database file.

PersistStart == QM_set_current_set(LoadAll(QM_init, <<"A", "B">>), "A").qm

PersistInit ==
    /\ qm = PersistStart
    /\ hist = [o \in ObjIds |-> NoHist]
    /\ nav = NoNav
    /\ n_answers = 0
    /\ n_marks = 0
    /\ db = DB_init
    /\ disk = DB_init
    /\ win = WinInit(FALSE)
    /\ n_cmds = 0

\* save_progress for the current set, as save_current_progress calls it.
P_save_progress ==
    /\ n_cmds < MaxSaves
    /\ db' = DB_save_progress(db, qm.objs, qm.questions, qm.current_question_index,
                              qm.current_set)
    /\ disk' = db'
    /\ n_cmds' = n_cmds + 1
    /\ nav' = NoNav
    /\ UNCHANGED <<qm, hist, n_answers, n_marks, win>>

\* save_progress raises after the DELETE and k more statements.
P_save_progress_raises(k) ==
    /\ n_cmds < MaxSaves
    /\ k <= Len(qm.questions) + 1
    /\ db' = DB_save_progress_raises(db, qm.objs, qm.questions,
                                     qm.current_question_index, qm.current_set, k)
    /\ n_cmds' = n_cmds + 1
    /\ nav' = "raised"
    /\ UNCHANGED <<qm, hist, disk, n_answers, n_marks, win>>

\* set_current_set(set_name), load_progress(set_name), the rows applied by id
\* and the cursor set: the calls load_question_sets makes for the set it
\* restores and change_question_set for the set picked.
P_switch(set_name) ==
    /\ qm' = ApplyProgress([qm |-> QM_set_current_set(qm, set_name).qm,
                            db |-> db, win |-> win],
                           DB_load_progress(db, set_name)).qm
    /\ nav' = NoNav
    /\ UNCHANGED <<hist, n_answers, n_marks, outside>>

\* The program ends and is started again: the connection's open transaction
\* is gone, and load_question_sets loads the banks into a new manager and
\* restores the last set from the file.
P_restart ==
    /\ n_cmds < MaxSaves
    /\ qm' = MW_load_question_sets([qm |-> QM_init, db |-> disk, win |-> WinInit(TRUE)],
                                   <<"A", "B">>).qm
    /\ db' = disk
    /\ hist' = [o \in ObjIds |-> NoHist]
    /\ n_cmds' = n_cmds + 1
    /\ nav' = NoNav
    /\ UNCHANGED <<disk, n_answers, n_marks, win>>

P_record_answer(is_correct) ==
    /\ n_cmds < MaxSaves
    /\ qm' = QM_record_answer(qm, is_correct)
    /\ hist' = HistSubmitted(hist, QM_get_current_question(qm), is_correct)
    /\ n_cmds' = n_cmds + 1
    /\ nav' = NoNav
    /\ UNCHANGED <<n_answers, n_marks, db, disk, win>>

P_toggle_mark(checked) ==
    /\ n_cmds < MaxSaves
    /\ qm' = SetMarked(qm, checked)
    /\ n_cmds' = n_cmds + 1
    /\ nav' = NoNav
    /\ UNCHANGED <<hist, n_answers, n_marks, db, disk, win>>

PersistNext ==
    \/ \E is_correct \in BOOLEAN : P_record_answer(is_correct)
    \/ \E checked \in BOOLEAN : P_toggle_mark(checked)
    \/ S_next_question
    \/ P_save_progress
    \/ \E k \in 0..3 : P_save_progress_raises(k)
    \/ \E set_name \in SetNames : P_switch(set_name)
    \/ P_restart

PersistSpec == PersistInit /\ [][PersistNext]_vars

\* ------------------------------------------------------------------ Spec
\* The program as its user drives it: it is started and closed, banks are
\* imported and selected, options are clicked, answers submitted, and the
\* single-shot timers fire, in any order.  The database file outlives the
\* process.

Init ==
    /\ qm = QM_init
    /\ db = DB_init
    /\ disk = DB_init
    /\ win = WinInit(FALSE)
    /\ hist = [o \in ObjIds |-> NoHist]
    /\ nav = NoNav
    /\ n_answers = 0
    /\ n_marks = 0
    /\ n_cmds = 0

World == [qm |-> qm, db |-> db, win |-> win]

\* The step to world w, with history h of the submissions and releases.
Becomes(w, h) ==
    /\ w.win.timers.emit + w.win.timers.submit + w.win.timers.next <= MaxTimers
    /\ qm' = w.qm
    /\ db' = w.db
    /\ disk' = w.db
    /\ win' = w.win
    /\ hist' = HistCollect(h, w.qm)
    /\ nav' = NoNav

\* The bank files glob can find in the working directory.
Directories == {<< >>, <<"A">>, <<"A", "B">>}

\* python ui.py: MainWindow.__init__ builds a new manager and window and
\* runs load_question_sets.
U_start(files) ==
    /\ ~win.running
    /\ n_cmds < MaxCmds
    /\ Becomes(MW_load_question_sets([qm |-> QM_init, db |-> db, win |-> WinInit(TRUE)],
                                     files), hist)
    /\ n_cmds' = n_cmds + 1
    /\ UNCHANGED <<n_answers, n_marks>>

\* The window is closed.
U_close ==
    /\ win.running
    /\ Becomes(MW_closeEvent(World), hist)
    /\ UNCHANGED <<n_answers, n_marks, n_cmds>>

\* The user picks item i of set_combo.
U_select_set(i) ==
    /\ win.running
    /\ n_cmds < MaxCmds
    /\ i \in 0..(Len(win.combo_items) - 1)
    /\ i # win.combo_index
    /\ Becomes(ComboSetCurrentIndex(World, i), hist)
    /\ n_cmds' = n_cmds + 1
    /\ UNCHANGED <<n_answers, n_marks>>

\* The user imports a bank file.
U_import(file_path) ==
    /\ win.running
    /\ n_cmds < MaxCmds
    /\ CanLoad(qm, file_path)
    /\ Becomes(MW_import_questions(World, file_path), hist)
    /\ n_cmds' = n_cmds + 1
    /\ UNCHANGED <<n_answers, n_marks>>

\* The user clicks an option button.
U_check(letter) ==
    /\ win.running
    /\ letter \in win.options
    /\ ClickOption(World, letter) # World
    /\ Becomes(ClickOption(World, letter), hist)
    /\ UNCHANGED <<n_answers, n_marks, n_cmds>>

\* A call of submit_answer.
Submit(w) ==
    /\ Records(w) => n_answers < MaxSubmits
    /\ Becomes(MW_submit_answer(w),
               IF Records(w)
               THEN HistSubmitted(hist, QM_get_current_question(w.qm), IsCorrect(w))
               ELSE hist)
    /\ n_answers' = IF Records(w) THEN n_answers + 1 ELSE n_answers
    /\ UNCHANGED <<n_marks, n_cmds>>

\* The user presses A or the right mouse button before the answer is shown,
\* or clicks submit_btn.
U_submit ==
    /\ win.running
    /\ ~win.showing_answer
    /\ Submit(World)

\* The user presses A or the right mouse button while the answer is shown,
\* or clicks next_btn.
U_next ==
    /\ win.running
    /\ win.showing_answer \/ win.next_enabled
    /\ Becomes(MW_next_question(World), hist)
    /\ UNCHANGED <<n_answers, n_marks, n_cmds>>

\* The user clicks prev_btn.
U_prev ==
    /\ win.running
    /\ win.prev_enabled
    /\ Becomes(MW_prev_question(World), hist)
    /\ UNCHANGED <<n_answers, n_marks, n_cmds>>

\* The user clicks mark_btn.
U_mark ==
    /\ win.running
    /\ n_cmds < MaxCmds
    /\ Becomes(MW_toggle_mark_question(World), hist)
    /\ n_cmds' = n_cmds + 1
    /\ UNCHANGED <<n_answers, n_marks>>

\* The user double-clicks item k of the wrong list.
U_open_wrong(k) ==
    /\ win.running
    /\ n_cmds < MaxCmds
    /\ k \in 1..Len(win.wrong_list)
    /\ Becomes(MW_open_wrong_question(World, k), hist)
    /\ n_cmds' = n_cmds + 1
    /\ UNCHANGED <<n_answers, n_marks>>

\* The user clicks the wrong-question practice button.
U_practice_wrong ==
    /\ win.running
    /\ n_cmds < MaxCmds
    /\ Becomes(MW_practice_wrong_questions(World), hist)
    /\ n_cmds' = n_cmds + 1
    /\ UNCHANGED <<n_answers, n_marks>>

\* The user clicks the refresh button of the wrong list.
U_refresh_wrong ==
    /\ win.running
    /\ n_cmds < MaxCmds
    /\ Becomes(MW_refresh_wrong_list(World), hist)
    /\ n_cmds' = n_cmds + 1
    /\ UNCHANGED <<n_answers, n_marks>>

\* The user releases mastered questions and enters a threshold.
U_release(threshold) ==
    /\ win.running
    /\ n_cmds < MaxCmds
    /\ Becomes(MW_release_mastered_questions(World, threshold),
               IF \E o \in Range(qm.questions) : qm.objs[o].mastered
               THEN HistReleased(hist, Released(qm, threshold)) ELSE hist)
    /\ n_cmds' = n_cmds + 1
    /\ UNCHANGED <<n_answers, n_marks>>

\* The timer of _on_radio_toggled fires: answer_selected.emit().
T_emit ==
    /\ win.running
    /\ win.timers.emit > 0
    /\ Becomes(MW_auto_submit_answer([World EXCEPT !.win.timers.emit = @ - 1]), hist)
    /\ UNCHANGED <<n_answers, n_marks, n_cmds>>

\* The timer of auto_submit_answer fires: submit_answer().
T_submit ==
    /\ win.running
    /\ win.timers.submit > 0
    /\ Submit([World EXCEPT !.win.timers.submit = @ - 1])

\* The timer of submit_answer fires: next_question().
T_next ==
    /\ win.running
    /\ win.timers.next > 0
    /\ Becomes(MW_next_question([World EXCEPT !.win.timers.next = @ - 1]), hist)
    /\ UNCHANGED <<n_answers, n_marks, n_cmds>>

Next ==
    \/ \E files \in Directories : U_start(files)
    \/ U_close
    \/ \E i \in 0..1 : U_select_set(i)
    \/ \E file_path \in SetNames : U_import(file_path)
    \/ \E letter \in {"A", "B"} : U_check(letter)
    \/ U_submit
    \/ U_next
    \/ U_prev
    \/ U_mark
    \/ \E k \in 1..3 : U_open_wrong(k)
    \/ U_practice_wrong
    \/ U_refresh_wrong
    \/ \E threshold \in 0..1 : U_release(threshold)
    \/ T_emit
    \/ T_submit
    \/ T_next

Spec == Init /\ [][Next]_vars

\* ------------------------------------------------------------------ JudgeSpec
\* Judging a multiple-choice submission: bank A as read from a table whose
\* multiple-choice row has options A, B, C and any answer cell made of
\* distinct option letters, in any order; that question is on show.
JudgeOptions == {"A", "B", "C"}

Answers ==
    {answer \in UNION {[1..n -> JudgeOptions] : n \in 1..Cardinality(JudgeOptions)} :
        \A i, j \in 1..Len(answer) : answer[i] = answer[j] => i = j}

JudgeStart(answer) ==
    LET m == QM_set_current_set(QM_load_from_excel(QM_init, "A").qm, "A").qm
        o == m.questions[2]
        w == [qm |-> [m EXCEPT !.objs[o].options = JudgeOptions,
                               !.objs[o].answer = answer,
                               !.current_question_index = 1],
              db |-> DB_init, win |-> WinInit(TRUE)]
    IN  MW_show_question(w)

JudgeInit ==
    \E answer \in Answers :
        /\ qm = JudgeStart(answer).qm
        /\ win = JudgeStart(answer).win
        /\ db = DB_init
        /\ disk = DB_init
        /\ hist = [o \in ObjIds |-> NoHist]
        /\ nav = NoNav
        /\ n_answers = 0
        /\ n_marks = 0
        /\ n_cmds = 0

\* The user clicks the check box of option `letter`.
J_check(letter) ==
    /\ win' = ClickOption(World, letter).win
    /\ UNCHANGED <<qm, hist, nav, n_answers, n_marks, db, disk, n_cmds>>

\* The user clicks submit_btn.
J_submit ==
    /\ ~win.showing_answer
    /\ Submit(World)

JudgeNext ==
    \/ \E letter \in JudgeOptions : J_check(letter)
    \/ J_submit

JudgeSpec == JudgeInit /\ [][JudgeNext]_vars

\* ------------------------------------------------------------------ claims, StoreSpec

Cur == QM_get_current_question(qm)

\* The questions registered under the current set name.
CurrentSetQuestions(m) ==
    IF m.current_set \in DOMAIN m.question_sets
    THEN Range(m.question_sets[m.current_set]) ELSE {}

\* The five progress fields of a question dict.
Progress(q) == <<q.answered, q.correct, q.wrong, q.marked, q.mastered>>

\* C1: record_answer(True) on the current question adds 1 to answered and to
\* correct, makes mastered (old mastered or new correct >= 2) and leaves wrong
\* and marked alone; so a question that only ever got k correct submissions
\* has correct = k and mastered = (k >= 2).
C1_RecordCorrect ==
    /\ Cur # 0 =>
          LET q  == qm.objs[Cur]
              q2 == QM_record_answer(qm, TRUE).objs[Cur]
          IN  /\ q2.answered = q.answered + 1
              /\ q2.correct = q.correct + 1
              /\ q2.mastered = (q.mastered \/ q2.correct >= 2)
              /\ q2.wrong = q.wrong
              /\ q2.marked = q.marked
    /\ \A o \in Live(qm) :
          hist[o].wrongs = 0 /\ ~hist[o].released =>
              /\ qm.objs[o].correct = hist[o].streak
              /\ qm.objs[o].mastered = (hist[o].streak >= 2)

\* Three correct submissions in a row on a fresh question: correct = 3 and
\* still mastered.
C1_Witness ==
    \E o \in Live(qm) :
        /\ hist[o].streak = 3 /\ hist[o].wrongs = 0 /\ ~hist[o].released
        /\ qm.objs[o].correct = 3 /\ qm.objs[o].mastered

\* C2: record_answer(False) on the current question adds 1 to answered and to
\* wrong, sets correct to 0 and leaves mastered and marked alone.
C2_RecordWrong ==
    Cur # 0 =>
        LET q  == qm.objs[Cur]
            q2 == QM_record_answer(qm, FALSE).objs[Cur]
        IN  /\ q2.answered = q.answered + 1
            /\ q2.wrong = q.wrong + 1
            /\ q2.correct = 0
            /\ q2.mastered = q.mastered
            /\ q2.marked = q.marked

\* A mastered question was answered wrongly and is still mastered: its streak
\* is 0 though no release touched it.
C2_Witness ==
    \E o \in Live(qm) :
        /\ qm.objs[o].mastered /\ ~hist[o].released
        /\ qm.objs[o].correct = 0 /\ qm.objs[o].wrong >= 1 /\ hist[o].streak = 0

\* A question's mastered flag goes from false to true in this step.
BecomesMastered(o) == ~qm.objs[o].mastered /\ qm'.objs[o].mastered

\* C4 as stated: in the step that sets mastered, the question has exactly two
\* correct submissions since its last wrong submission (or its creation).
C4_Original ==
    [][\A o \in Live(qm) : BecomesMastered(o) => hist'[o].streak = 2]_vars

\* C4 amended: in the step that sets mastered, the question has exactly two
\* correct submissions since its last wrong submission, its last release or
\* its creation, and its counter correct is 2.
C4_MasteredAfterTwo ==
    [][\A o \in Live(qm) : BecomesMastered(o) =>
            hist'[o].run = 2 /\ qm'.objs[o].correct = 2]_vars

\* A released question mastered again: two correct submissions after the
\* release, four since creation.
C4_Witness ==
    \E o \in Live(qm) :
        /\ qm.objs[o].mastered /\ hist[o].released
        /\ hist[o].run = 2 /\ hist[o].streak = 4

\* C5: release with threshold t clears mastered and correct of exactly the
\* questions of the current set that are mastered with wrong >= t, keeps
\* their wrong, leaves every other question's five fields alone and returns
\* the number of questions changed; t = 0 releases every mastered question.
C5_Release ==
    \A t \in 0..MaxThreshold :
        LET r  == QM_release_mastered_questions_by_wrong_count(qm, t)
            hit == {o \in CurrentSetQuestions(qm) :
                       qm.objs[o].mastered /\ qm.objs[o].wrong >= t}
        IN  /\ \A o \in hit :
                   /\ ~r.qm.objs[o].mastered
                   /\ r.qm.objs[o].correct = 0
                   /\ r.qm.objs[o].wrong = qm.objs[o].wrong
            /\ \A o \in ObjIds \ hit : Progress(r.qm.objs[o]) = Progress(qm.objs[o])
            /\ r.ret = Cardinality(hit)
            /\ r.ret = Cardinality({o \in ObjIds : r.qm.objs[o] # qm.objs[o]})
            /\ t = 0 => \A o \in CurrentSetQuestions(qm) : ~r.qm.objs[o].mastered

\* A question with a wrong submission was mastered and released, while
\* another question keeps its streak of 1.
C5_Witness ==
    \E o1, o2 \in Live(qm) :
        /\ hist[o1].released /\ ~qm.objs[o1].mastered /\ qm.objs[o1].correct = 0
        /\ qm.objs[o1].wrong >= 1
        /\ o2 # o1 /\ qm.objs[o2].correct = 1 /\ ~hist[o2].released

\* C6: reset_progress(exclude_mastered) sets answered to 0 and marked to false
\* for every question of the current set unless it is excluded (excluded =
\* exclude_mastered and mastered), and leaves answered and marked of the
\* excluded ones alone.
C6_Reset ==
    \A ex \in BOOLEAN :
        LET m2 == QM_reset_progress(qm, ex)
        IN  \A o \in CurrentSetQuestions(qm) :
                IF ~(ex /\ qm.objs[o].mastered)
                THEN m2.objs[o].answered = 0 /\ ~m2.objs[o].marked
                ELSE /\ m2.objs[o].answered = qm.objs[o].answered
                     /\ m2.objs[o].marked = qm.objs[o].marked

\* A reset passed over a marked mastered question (it keeps answered and its
\* mark) and cleared a question that had been answered.
C6_Witness ==
    \E o1, o2 \in Live(qm) :
        /\ qm.objs[o1].mastered /\ qm.objs[o1].marked /\ qm.objs[o1].answered >= 2
        /\ ~qm.objs[o2].mastered /\ qm.objs[o2].answered = 0
        /\ hist[o2].wrongs + hist[o2].streak >= 1

\* C7: reset_progress never changes wrong, correct or mastered of any question
\* and never moves the cursor.
C7_ResetFrame ==
    \A ex \in BOOLEAN :
        LET m2 == QM_reset_progress(qm, ex)
        IN  /\ \A o \in ObjIds :
                   /\ m2.objs[o].wrong = qm.objs[o].wrong
                   /\ m2.objs[o].correct = qm.objs[o].correct
                   /\ m2.objs[o].mastered = qm.objs[o].mastered
            /\ m2.current_question_index = qm.current_question_index
            /\ m2.questions = qm.questions

\* A question was reset (answered = 0) and keeps its wrong count and streak.
C7_Witness ==
    \E o \in Live(qm) :
        /\ qm.objs[o].answered = 0
        /\ qm.objs[o].wrong >= 1 /\ qm.objs[o].correct = 1
        /\ hist[o].wrongs >= 1 /\ hist[o].streak = 1

\* The indexes after (before) the cursor whose question is not mastered.
UnmasteredAfter(m) ==
    {i \in (m.current_question_index + 1)..(Len(m.questions) - 1) : ~Mastered(m, i)}

UnmasteredBefore(m) ==
    {i \in 0..(m.current_question_index - 1) : ~Mastered(m, i)}

Min(S) == CHOOSE x \in S : \A y \in S : x <= y

Max(S) == CHOOSE x \in S : \A y \in S : x >= y

\* C8: when an unmastered question lies after (before) the cursor,
\* next_question (prev_question) moves the cursor to the nearest one and
\* returns true; the questions passed over are mastered and no question
\* changes.
C8_Advance ==
    /\ UnmasteredAfter(qm) # {} =>
          LET r == QM_next_question(qm)
          IN  /\ r.ret = TRUE
              /\ r.qm.current_question_index = Min(UnmasteredAfter(qm))
              /\ \A i \in (qm.current_question_index + 1)..(r.qm.current_question_index - 1) :
                     Mastered(qm, i)
              /\ r.qm.objs = qm.objs /\ r.qm.questions = qm.questions
    /\ UnmasteredBefore(qm) # {} =>
          LET r == QM_prev_question(qm)
          IN  /\ r.ret = TRUE
              /\ r.qm.current_question_index = Max(UnmasteredBefore(qm))
              /\ \A i \in (r.qm.current_question_index + 1)..(qm.current_question_index - 1) :
                     Mastered(qm, i)
              /\ r.qm.objs = qm.objs /\ r.qm.questions = qm.questions

\* next_question has just moved the cursor from the first question to the
\* third, over a mastered second one.
C8_Witness ==
    /\ nav = "next"
    /\ qm.current_question_index = 2
    /\ Mastered(qm, 1) /\ ~Mastered(qm, 0) /\ ~Mastered(qm, 2)

\* C9: with no unmastered question after (before) the cursor, next_question
\* (prev_question) returns false and changes nothing, and so does every
\* repetition of the call.
C9_Exhausted ==
    /\ UnmasteredAfter(qm) = {} =>
          LET r == QM_next_question(qm)
          IN  r.ret = FALSE /\ r.qm = qm /\ QM_next_question(r.qm) = r
    /\ UnmasteredBefore(qm) = {} =>
          LET r == QM_prev_question(qm)
          IN  r.ret = FALSE /\ r.qm = qm /\ QM_prev_question(r.qm) = r

\* The cursor is on the last unmastered question, with mastered questions
\* after it, where prev_question has just put it.
C9_Witness ==
    /\ nav = "prev"
    /\ qm.current_question_index = 0
    /\ ~Mastered(qm, 0) /\ Mastered(qm, 1) /\ Mastered(qm, 2)
    /\ UnmasteredAfter(qm) = {}

\* C10: next_question_exists returns what next_question would return, and
\* prev_question_exists what prev_question would.
C10_ExistsAgrees ==
    /\ QM_next_question_exists(qm) = QM_next_question(qm).ret
    /\ QM_prev_question_exists(qm) = QM_prev_question(qm).ret
    /\ QM_next_question_exists(qm) = (UnmasteredAfter(qm) # {})
    /\ QM_prev_question_exists(qm) = (UnmasteredBefore(qm) # {})

\* The two answers differ: an unmastered question before the cursor, only
\* mastered ones after it.
C10_Witness ==
    /\ qm.current_question_index = 1
    /\ ~Mastered(qm, 0) /\ Mastered(qm, 2)
    /\ QM_prev_question_exists(qm) /\ ~QM_next_question_exists(qm)


\* ------------------------------------------------------------------ claims, Spec

\* A question dict that is mastered before the step and not after it.
Unmastered(o) ==
    /\ o \in Live(qm) /\ o \in Live(qm')
    /\ qm.objs[o].mastered
    /\ ~qm'.objs[o].mastered

\* C3: in every interleaving of answering, navigating, marking, resetting,
\* releasing, switching sets, importing, saving and loading, a step that
\* changes a question's mastered from true to false is the release of
\* mastered questions, and it leaves the question's correct streak at 0.
C3_OnlyReleaseUnmasters ==
    [][\A o \in ObjIds :
          Unmastered(o) => /\ \E threshold \in 0..1 : U_release(threshold)
                           /\ qm'.objs[o].correct = 0]_vars

\* C11: in every reachable state of a session the cursor is a valid index
\* into the active question sequence, or 0 when the sequence is empty, so
\* get_current_question never fails.
C11_CursorValid ==
    win.running =>
        /\ qm.current_question_index >= 0
        /\ qm.questions = << >> => qm.current_question_index = 0
        /\ qm.questions # << >> => qm.current_question_index < Len(qm.questions)

\* ------------------------------------------------------------------ claims, BankSpec

\* The set names a caller can pass.
AllNames == SetNames \cup {UnknownSet}

\* The dicts of a list, in order.
Dicts(m, ids) == [i \in 1..Len(ids) |-> m.objs[ids[i]]]

\* C12: a successful load_from_excel registers the new set under its name,
\* makes it the current set, so that the list the other methods work on is
\* the newly loaded one, and sets the cursor to 0.
C12_LoadMakesCurrent ==
    \A file_path \in SetNames :
        CanLoad(qm, file_path) =>
            LET r == QM_load_from_excel(qm, file_path)
            IN  /\ r.ret
                /\ file_path \in DOMAIN r.qm.question_sets
                /\ r.qm.current_set = file_path
                /\ r.qm.questions = r.qm.question_sets[file_path]
                /\ r.qm.current_question_index = 0

\* C13: load_from_excel on a table that lacks one of the ten required
\* columns returns failure and leaves the manager as it was: no set
\* registered or replaced, current set, questions and cursor as before; a
\* table that lacks only the explanation column loads.
C13_MissingColumn ==
    /\ \A column \in RequiredColumns :
          \E file_path \in BadFiles :
              /\ ColumnsOf(file_path) = (RequiredColumns \cup {"explanation"}) \ {column}
              /\ QM_load_from_excel(qm, file_path) = [qm |-> qm, ret |-> FALSE]
    /\ \A file_path \in SetNames :
          /\ "explanation" \notin ColumnsOf(file_path)
          /\ CanLoad(qm, file_path) =>
                LET r == QM_load_from_excel(qm, file_path)
                IN  /\ r.ret
                    /\ file_path \in DOMAIN r.qm.question_sets
                    /\ Dicts(r.qm, r.qm.question_sets[file_path])
                          = [i \in 1..Len(FileOf(file_path)) |->
                                NewQuestion(FileOf(file_path)[i])]

\* A load was just refused while a set with progress is current.
C13_Witness ==
    /\ nav = "rejected"
    /\ qm.current_question_index > 0
    /\ \E o \in Range(qm.questions) : qm.objs[o].answered > 0
    /\ Cardinality(DOMAIN qm.question_sets) = 2

\* C14: loading a table under a name that is registered already replaces
\* the set: the list registered under the name is the new rows, each with
\* counters 0 and flags false, and the list the manager works on holds no
\* question of the replaced set.
C14_ReloadReplaces ==
    \A file_path \in SetNames \cap DOMAIN qm.question_sets :
        CanLoad(qm, file_path) =>
            LET r == QM_load_from_excel(qm, file_path)
            IN  /\ Dicts(r.qm, r.qm.question_sets[file_path])
                      = [i \in 1..Len(FileOf(file_path)) |->
                            NewQuestion(FileOf(file_path)[i])]
                /\ Range(r.qm.questions) \cap Range(qm.question_sets[file_path]) = {}

\* C15: set_current_set with a name that is not registered returns False
\* and changes nothing.
C15_UnknownSet ==
    \A set_name \in AllNames \ DOMAIN qm.question_sets :
        QM_set_current_set(qm, set_name) = [qm |-> qm, ret |-> FALSE]

\* A set_current_set was just refused while a set is current at cursor 1.
C15_Witness ==
    /\ nav = "unknown"
    /\ qm.current_set \in SetNames
    /\ qm.current_question_index = 1

C17_SaveReplaces ==
    \A set_name \in DOMAIN qm.question_sets :
        LET questions == qm.question_sets[set_name]
        IN  \A c \in 0..Len(questions) :
                LET saved  == DB_save_progress(db, qm.objs, questions, c, set_name)
                    loaded == DB_load_progress(saved, set_name)
                IN  /\ Len(loaded.rows) = Len(questions)
                    /\ \A i \in 1..Len(questions) :
                           LET q   == qm.objs[questions[i]]
                               row == loaded.rows[i]
                           IN  /\ row.question_id = q.id
                               /\ row.answered = q.answered
                               /\ row.correct = q.correct
                               /\ row.wrong = q.wrong
                               /\ BoolOf(row.marked) = q.marked
                               /\ BoolOf(row.mastered) = q.mastered
                    /\ loaded.last_position = c
                    /\ loaded.last_set = set_name

\* A committed earlier save of the current set is in the database, one of its
\* rows no longer agrees with its dict, and the cursor has moved since.
C17_Witness ==
    /\ db = disk
    /\ DB_load_progress(db, qm.current_set).last_set = qm.current_set
    /\ DB_load_progress(db, qm.current_set).last_position # qm.current_question_index
    /\ \E i \in 1..Len(qm.questions) :
           /\ i <= Len(DB_load_progress(db, qm.current_set).rows)
           /\ DB_load_progress(db, qm.current_set).rows[i].answered
                  # qm.objs[qm.questions[i]].answered

\* C18: a save_progress of set S that raises part-way leaves the committed
\* file, then and after later successful saves of any set, with S's rows as
\* they were or with the complete new rows.  Both are the rows of a whole
\* save, or none when S was never saved: the file never holds for a set a
\* number of rows other than none or one per question of the set.
C18_NoPartialRows ==
    \A set_name \in DOMAIN qm.question_sets :
        Len(DB_load_progress(disk, set_name).rows)
            \in {0, Len(qm.question_sets[set_name])}

\* C19: a step changes the committed rows and the committed cursor of no set
\* but the one it saves, which is the current set.
C19_OtherSetsUntouched ==
    [][\A set_name \in SetNames \ {qm.current_set} :
           /\ DB_load_progress(disk', set_name).rows
                  = DB_load_progress(disk, set_name).rows
           /\ DB_load_progress(disk', set_name).last_position
                  = DB_load_progress(disk, set_name).last_position]_vars

\* C20: save_progress of a set with cursor c, then the set loaded anew from
\* its file by a new manager and made current, load_progress and the rows
\* applied by id, gives
\* every question the answered, correct, wrong, marked and mastered it had at
\* the save, and the cursor c.  The ids of a set's questions are pairwise
\* distinct in every file of the model.
C20_RoundTrip ==
    \A set_name \in DOMAIN qm.question_sets :
        LET questions == qm.question_sets[set_name]
        IN  \A c \in 0..(Len(questions) - 1) :
                LET saved == DB_save_progress(db, qm.objs, questions, c, set_name)
                    fresh == QM_set_current_set(
                                 QM_load_from_excel(QM_init, set_name).qm, set_name).qm
                    w     == ApplyProgress([qm |-> fresh, db |-> saved, win |-> win],
                                           DB_load_progress(saved, set_name))
                IN  /\ Len(w.qm.questions) = Len(questions)
                    /\ \A i \in 1..Len(questions) :
                           /\ w.qm.objs[w.qm.questions[i]].id = qm.objs[questions[i]].id
                           /\ Progress(w.qm.objs[w.qm.questions[i]])
                                  = Progress(qm.objs[questions[i]])
                    /\ w.qm.current_question_index = c

\* After a restart the dicts are new and nothing was answered in this run, and
\* the current set has its wrong count and its cursor back from the file.
C20_Witness ==
    /\ \A o \in ObjIds : hist[o] = NoHist
    /\ db = disk
    /\ qm.current_question_index = 1
    /\ \E i \in 1..Len(qm.questions) : qm.objs[qm.questions[i]].wrong > 0

\* A new manager that has loaded bank B only.
OnlyB == QM_load_from_excel(QM_init, "B").qm

\* The five fields of dict q are those of row.
HasRow(q, row) ==
    /\ q.answered = row.answered
    /\ q.correct = row.correct
    /\ q.wrong = row.wrong
    /\ q.marked = BoolOf(row.marked)
    /\ q.mastered = BoolOf(row.mastered)

\* C21: applying loaded rows to a list of dicts gives every dict whose id is
\* the id of a row that row's five fields, passes over every row whose id no
\* dict has, and leaves every other dict as it was.  Per-set path: the rows
\* saved under any name applied to the list of any registered set.
\* load_all_progress: all rows applied to the manager, and to a manager that
\* has only bank B.
C21_ApplyRows ==
    /\ \A set_name \in DOMAIN qm.question_sets : \A target \in DOMAIN qm.question_sets :
           LET rows      == DB_load_progress(db, set_name).rows
               questions == qm.question_sets[target]
               objs      == ApplyRows(qm.objs, questions, rows)
           IN  \A o \in ObjIds :
                   LET at == {i \in 1..Len(rows) : rows[i].question_id = qm.objs[o].id}
                   IN  IF o \in Range(questions) /\ at # {}
                       THEN /\ \E i \in at : HasRow(objs[o], rows[i])
                            /\ objs[o].id = qm.objs[o].id
                            /\ objs[o].answer = qm.objs[o].answer
                       ELSE objs[o] = qm.objs[o]
    /\ \A m \in {qm, OnlyB} :
           LET rows == db.user_progress
               objs == DB_load_all_progress(db, m).qm.objs
           IN  \A o \in ObjIds :
                   LET at == {i \in 1..Len(rows) :
                                 /\ rows[i].set_name \in DOMAIN m.question_sets
                                 /\ o \in Range(m.question_sets[rows[i].set_name])
                                 /\ rows[i].question_id = m.objs[o].id}
                   IN  IF at # {}
                       THEN /\ \E i \in at : HasRow(objs[o], rows[i])
                            /\ objs[o].id = m.objs[o].id
                            /\ objs[o].answer = m.objs[o].answer
                       ELSE objs[o] = m.objs[o]

\* The database holds a row of set A whose id no dict of B has, and a row of
\* A that no longer agrees with its dict; B has a row too.
C21_Witness ==
    /\ \E i \in 1..Len(db.user_progress) :
           /\ db.user_progress[i].set_name = "A"
           /\ \A o \in Range(qm.question_sets["B"]) :
                  qm.objs[o].id # db.user_progress[i].question_id
    /\ \E i \in 1..Len(db.user_progress) : \E o \in Range(qm.question_sets["A"]) :
           /\ db.user_progress[i].set_name = "A"
           /\ db.user_progress[i].question_id = qm.objs[o].id
           /\ ~HasRow(qm.objs[o], db.user_progress[i])
    /\ \E i \in 1..Len(db.user_progress) : db.user_progress[i].set_name = "B"

\* ------------------------------------------------------------- claims (Spec)
\* C22: in the step that closes the window while a set is current and its
\* list is not empty, the file gets one row per dict of the list with the
\* dict's id and five fields under the set's name, and the cursor as the
\* set's saved position.
C22_CloseSaves ==
    [][(win.running /\ ~win'.running /\ qm.current_set # "" /\ qm.questions # << >>)
          => LET loaded == DB_load_progress(disk', qm.current_set)
             IN  /\ Len(loaded.rows) = Len(qm.questions)
                 /\ \A i \in 1..Len(qm.questions) :
                        /\ loaded.rows[i].question_id = qm.objs[qm.questions[i]].id
                        /\ HasRow(qm.objs[qm.questions[i]], loaded.rows[i])
                 /\ loaded.last_position = qm.current_question_index]_vars

\* C23: the timer that a correct answer started fires after the user has
\* navigated (a question was shown since the answer, so the answer is no
\* longer showing): the step leaves the cursor and the five fields of every
\* question as they were.
C23_StaleTimerInert ==
    [][(/\ win.running /\ win'.running
        /\ win.timers.next > 0
        /\ win'.timers.next < win.timers.next
        /\ ~win.showing_answer)
          => /\ qm'.current_question_index = qm.current_question_index
             /\ \A o \in Live(qm) : Progress(qm'.objs[o]) = Progress(qm.objs[o])]_vars

\* -------------------------------------------------------- claims (StoreSpec)
\* C29 as stated: a question with answered = 0 that is not mastered is not
\* mastered after one step.
C29_Original ==
    [][\A o \in Live(qm) :
           (qm.objs[o].answered = 0 /\ ~qm.objs[o].mastered) => ~qm'.objs[o].mastered]_vars

\* C29 amended: the step that sets mastered is a correct submission to a
\* question whose correct count was already above 0, the submission before it
\* since the question's creation or last release being correct as well; so a
\* question with correct = 0 is not mastered after one step.
C29_SecondCorrect ==
    [][\A o \in Live(qm) : BecomesMastered(o) =>
           /\ qm.objs[o].correct >= 1
           /\ hist[o].run >= 1
           /\ hist'[o].run = hist[o].run + 1
           /\ hist'[o].wrongs = hist[o].wrongs]_vars

\* A question mastered with the answered count at 1: reset_progress came
\* between its two correct submissions.
C29_Witness ==
    \E o \in Live(qm) :
        qm.objs[o].mastered /\ qm.objs[o].answered = 1 /\ hist[o].run = 2

\* --------------------------------------------------------- claims (BankSpec)
\* C24: get_progress gives, for the list of questions the manager works on,
\* the number of its questions, of those answered at least once, of those
\* with a correct count above 0, of those mastered and of those not
\* mastered, in every state.
C24_Snapshot ==
    LET dicts == Dicts(qm, qm.questions)
        p     == QM_get_progress(qm)
    IN  /\ p.total = Len(dicts)
        /\ p.answered = Len(SelectSeq(dicts, LAMBDA q : q.answered > 0))
        /\ p.correct = Len(SelectSeq(dicts, LAMBDA q : q.correct > 0))
        /\ p.mastered = Len(SelectSeq(dicts, LAMBDA q : q.mastered))
        /\ p.unmastered = Len(SelectSeq(dicts, LAMBDA q : ~q.mastered))

\* Of the two questions of the list one is mastered, the other is answered
\* with no correct count.
C24_Witness ==
    /\ QM_get_progress(qm).total = 2
    /\ QM_get_progress(qm).answered = 2
    /\ QM_get_progress(qm).correct = 1
    /\ QM_get_progress(qm).mastered = 1

\* C28: record_answer changes the dict of the current question and nothing
\* else: every other dict, of the list and of every other set, the lists,
\* the current set and the cursor stay, and of the current question the
\* content stays; with an empty list of questions the call returns with
\* nothing changed.
C28_RecordFrame ==
    \A is_correct \in BOOLEAN :
        LET r == QM_record_answer(qm, is_correct)
            o == QM_get_current_question(qm)
        IN  /\ ~IndexError(qm)
            /\ \A other \in ObjIds \ {o} : r.objs[other] = qm.objs[other]
            /\ r.questions = qm.questions
            /\ r.question_sets = qm.question_sets
            /\ r.set_order = qm.set_order
            /\ r.current_set = qm.current_set
            /\ r.current_question_index = qm.current_question_index
            /\ o # 0 => /\ r.objs[o].answered = qm.objs[o].answered + 1
                        /\ r.objs[o].id = qm.objs[o].id
                        /\ r.objs[o].type = qm.objs[o].type
                        /\ r.objs[o].options = qm.objs[o].options
                        /\ r.objs[o].answer = qm.objs[o].answer
                        /\ r.objs[o].marked = qm.objs[o].marked
            /\ qm.questions = << >> => r = qm

\* Two sets are registered, the cursor is on the second question of the
\* list, and the first question has been answered.
C28_Witness ==
    /\ DOMAIN qm.question_sets = SetNames
    /\ qm.current_question_index = 1
    /\ qm.objs[qm.questions[1]].answered > 0

\* -------------------------------------------------------- claims (JudgeSpec)
\* C25: a submission to a multiple-choice question is judged correct exactly
\* when the set of checked letters is the set of letters of the stored
\* answer, in whatever order the answer cell has them.
C25_MultiJudged ==
    (win.is_multiple /\ Records(World))
        => (IsCorrect(World)
              <=> win.checked = Range(qm.objs[QM_get_current_question(qm)].answer))

\* ------------------------------------------------------------- claims (Spec)
\* C30: a question put on show that is the current one and has not been
\* answered since (after the start, a change of set, or a double click in
\* the wrong list) is not mastered when the list has a question that is not.
C30_ShownUnmastered ==
    (/\ win.running
     /\ ~win.showing_answer
     /\ ~IndexError(qm)
     /\ win.shown # 0
     /\ win.shown = QM_get_current_question(qm)
     /\ \E i \in 1..Len(qm.questions) : ~qm.objs[qm.questions[i]].mastered)
        => ~qm.objs[win.shown].mastered

\* ------------------------------------------------------ claims (PersistSpec)
\* C26: after save_all_progress the table holds one row per question of every
\* registered set, with the set's name and the question's id and five fields,
\* and no other row; the saved last_position is the cursor and last_set the
\* current set; load_all_progress of that database on a new manager that
\* loaded the same files gives every question of every set its five fields.
C26_SaveAllRoundTrip ==
    LET saved  == DB_save_all_progress(db, qm)
        rows   == saved.user_progress
        fresh  == LoadAll(QM_init, qm.set_order)
        loaded == DB_load_all_progress(saved, fresh)
        of(set_name, i) == {k \in 1..Len(rows) :
                               /\ rows[k].set_name = set_name
                               /\ rows[k].question_id = qm.objs[qm.question_sets[set_name][i]].id}
    IN  /\ \A set_name \in DOMAIN qm.question_sets :
               \A i \in 1..Len(qm.question_sets[set_name]) :
                   /\ Cardinality(of(set_name, i)) = 1
                   /\ \A k \in of(set_name, i) :
                          HasRow(qm.objs[qm.question_sets[set_name][i]], rows[k])
        /\ \A k \in 1..Len(rows) :
               \E set_name \in DOMAIN qm.question_sets :
                   \E i \in 1..Len(qm.question_sets[set_name]) : k \in of(set_name, i)
        /\ loaded.last_position = qm.current_question_index
        /\ loaded.last_set = qm.current_set
        /\ DOMAIN loaded.qm.question_sets = DOMAIN qm.question_sets
        /\ \A set_name \in DOMAIN qm.question_sets :
               /\ Len(loaded.qm.question_sets[set_name]) = Len(qm.question_sets[set_name])
               /\ \A i \in 1..Len(qm.question_sets[set_name]) :
                      LET q == loaded.qm.objs[loaded.qm.question_sets[set_name][i]]
                      IN  /\ q.id = qm.objs[qm.question_sets[set_name][i]].id
                          /\ Progress(q) = Progress(qm.objs[qm.question_sets[set_name][i]])

\* The questions of A and of B with the same id differ in their fields, the
\* cursor is not 0, and the database holds rows that no longer agree with the
\* dicts.
C26_Witness ==
    /\ qm.current_question_index > 0
    /\ \E a \in Range(qm.question_sets["A"]) : \E b \in Range(qm.question_sets["B"]) :
           /\ qm.objs[a].id = qm.objs[b].id
           /\ Progress(qm.objs[a]) # Progress(qm.objs[b])
    /\ db.user_progress # << >>
    /\ db.user_progress # DB_save_all_progress(db, qm).user_progress

\* C27: the program started on a database gives the set it makes current the
\* set's own saved position when there is one, else the position of the one
\* key last_position when that is there, else 0.  Stated for the database as
\* it is and for the database that save_all_progress leaves.
C27_StartupCursor ==
    \A d \in {db, DB_save_all_progress(db, qm)} :
        LET w == MW_load_question_sets([qm |-> QM_init, db |-> d, win |-> WinInit(TRUE)],
                                       <<"A", "B">>)
        IN  w.qm.current_question_index =
                IF PositionKey(w.qm.current_set) \in DOMAIN d.app_state
                THEN ParseInt(d.app_state[PositionKey(w.qm.current_set)])
                ELSE IF "last_position" \in DOMAIN d.app_state
                THEN ParseInt(d.app_state["last_position"])
                ELSE 0

\* ------------------------------------------------------------- claims (Spec)
\* C31: an import writes no row of another set under the name of the set
\* imported: every row of the file carries the id of a question of the bank
\* it is saved under, and a bank has at most one row per question.
C31_NoForeignRows ==
    /\ \A k \in 1..Len(disk.user_progress) :
           \E i \in 1..Len(FileOf(disk.user_progress[k].set_name)) :
               FileOf(disk.user_progress[k].set_name)[i].id
                   = disk.user_progress[k].question_id
    /\ \A set_name \in SetNames :
           Len(DB_load_progress(disk, set_name).rows) <= Len(FileOf(set_name))

\* C32: whenever a set is current, the list of questions the manager works
\* on is the list registered under the current set's name.
C32_ActiveIsRegistered ==
    (win.running /\ qm.current_set # "")
        => /\ qm.current_set \in DOMAIN qm.question_sets
           /\ qm.questions = qm.question_sets[qm.current_set]

\* C33: when the window of an initialized session closes with set S current,
\* the file then holds exactly one progress row under S for each question
\* registered under S.
C33_SaveCoversSet ==
    [][(win.running /\ ~win'.running /\ win.initialized
            /\ qm.current_set \in DOMAIN qm.question_sets)
          => LET rows == DB_load_progress(disk', qm.current_set).rows
                 registered == qm.question_sets[qm.current_set]
             IN  /\ Len(rows) = Len(registered)
                 /\ \A i \in 1..Len(registered) :
                        \E k \in 1..Len(rows) :
                            rows[k].question_id = qm.objs[registered[i]].id]_vars

\* ----------------------------------------------------------------- SwitchSpec
\* One session with banks A and B registered and an empty database, either
\* started with both files in the working directory or started with an empty
\* directory and both files imported: answering, marking, releasing and
\* switching between the two sets.
SwitchInit ==
    \E files \in {<< >>, <<"A", "B">>} :
    \E w0 \in {MW_load_question_sets([qm |-> QM_init, db |-> DB_init, win |-> WinInit(TRUE)],
                                      files)} :
    \E w1 \in {IF files = << >> THEN MW_import_questions(w0, "A") ELSE w0} :
    \E w \in {IF files = << >> THEN MW_import_questions(w1, "B") ELSE w1} :
        /\ qm = w.qm
        /\ db = w.db
        /\ disk = w.db
        /\ win = w.win
        /\ hist = [o \in ObjIds |-> NoHist]
        /\ nav = NoNav
        /\ n_answers = 0
        /\ n_marks = 0
        /\ n_cmds = 0

SwitchNext ==
    \/ \E i \in 0..1 : U_select_set(i)
    \/ \E letter \in {"A", "B"} : U_check(letter)
    \/ U_submit
    \/ U_mark
    \/ \E threshold \in 0..1 : U_release(threshold)
    \/ T_emit
    \/ T_submit
    \/ T_next

SwitchSpec == SwitchInit /\ [][SwitchNext]_vars

\* What the user may do in the other set before coming back: nothing, an
\* answer (the click on an option and the submission), the next button, a
\* release with threshold 0.
InOtherSet(w) ==
    {w, MW_next_question(w), MW_release_mastered_questions(w, 0)}
        \cup {MW_submit_answer(ClickOption(w, letter)) : letter \in {"A", "B"}}

\* C34: with set X current, choosing the other set in the combo box, doing
\* anything there and choosing X again gives every question registered under
\* X its five fields and the cursor its value from before X was left.
C34_RoundTrip ==
    \A i \in 0..(Len(win.combo_items) - 1) :
        (/\ win.running
         /\ qm.current_set \in DOMAIN qm.question_sets
         /\ CurrentText(win) = qm.current_set
         /\ i # win.combo_index)
          => \A w2 \in InOtherSet(ComboSetCurrentIndex(World, i)) :
                 LET w3 == ComboSetCurrentIndex(w2, win.combo_index)
                 IN  /\ w3.qm.current_set = qm.current_set
                     /\ w3.qm.current_question_index = qm.current_question_index
                     /\ \A o \in Range(qm.question_sets[qm.current_set]) :
                            Progress(w3.qm.objs[o]) = Progress(qm.objs[o])

C36_OneAnswerPerDisplay ==
    [][\A o \in Live(qm) \cap Live(qm') :
           (/\ qm'.objs[o].answered > qm.objs[o].answered
            /\ win'.combo_items = win.combo_items
            /\ win'.combo_index = win.combo_index)
             => /\ ~win.showing_answer
                /\ win'.showing_answer
                /\ o = QM_get_current_question(qm)
                /\ qm'.objs[o].answered = qm.objs[o].answered + 1
                /\ qm'.current_question_index = qm.current_question_index
                /\ \A p \in (Live(qm) \cap Live(qm')) \ {o} :
                       qm'.objs[p].answered <= qm.objs[p].answered]_vars

\* C36: an answer was recorded through the submit button and is showing
\* while the timer of an earlier click on a radio button is still to call
\* submit_answer.
C36_Witness ==
    /\ win.running
    /\ win.showing_answer
    /\ win.timers.submit > 0
    /\ win.checked # {}
    /\ n_answers > 0

\* The indexes of the list whose question is not mastered.
UnmasteredAt(m) == {i \in 0..(Len(m.questions) - 1) : ~Mastered(m, i)}

\* C37: with the cursor on a question of the list and no unmastered question
\* after it, the handler next_question clears answered and marked of every
\* unmastered question and nothing else, puts the cursor on the unmastered
\* question of lowest index and displays it; when every question is mastered
\* the cursor stays and the question at the cursor is displayed.
C37_EndOfRound ==
    (win.running /\ qm.questions # << >> /\ ~IndexError(qm) /\ UnmasteredAfter(qm) = {})
      => LET w == MW_next_question(World)
             at == IF UnmasteredAt(qm) # {} THEN Min(UnmasteredAt(qm))
                   ELSE qm.current_question_index
         IN  /\ w.qm.questions = qm.questions
             /\ \A o \in ObjIds :
                    w.qm.objs[o] =
                        IF o \in Range(qm.questions) /\ ~qm.objs[o].mastered
                        THEN [qm.objs[o] EXCEPT !.answered = 0, !.marked = FALSE]
                        ELSE qm.objs[o]
             /\ w.qm.current_question_index = at
             /\ w.win.shown = qm.questions[at + 1]
             /\ ~w.win.showing_answer
             /\ w.db = db

\* C37: the cursor is on the last question of a list of two, the first
\* question was answered and is not mastered: the next button starts a new
\* round at the first question.
C37_Witness ==
    /\ win.running
    /\ Len(qm.questions) = 2
    /\ qm.current_question_index = 1
    /\ UnmasteredAfter(qm) = {}
    /\ ~Mastered(qm, 0)
    /\ qm.objs[qm.questions[1]].answered > 0
    /\ qm.objs[qm.questions[1]].marked

\* ------------------------------------------------------------------ LearnSpec
\* A user who only gives correct answers: a session started with banks A and
\* B and an empty database, with either set chosen.  The user clicks the
\* options of the stored answer of the question on display and, for a
\* multiple-choice question or ahead of the timer, the submit button; the
\* timers of _on_radio_toggled, auto_submit_answer and submit_answer fire.
\* The user stops after MaxLearn answers.
MaxLearn == 5

LearnInit ==
    \E i \in 0..1 :
    \E w0 \in {MW_load_question_sets([qm |-> QM_init, db |-> DB_init, win |-> WinInit(TRUE)],
                                      <<"A", "B">>)} :
    \E w \in {ComboSetCurrentIndex(w0, i)} :
        /\ qm = w.qm
        /\ db = w.db
        /\ disk = w.db
        /\ win = w.win
        /\ hist = [o \in ObjIds |-> NoHist]
        /\ nav = NoNav
        /\ n_answers = 0
        /\ n_marks = 0
        /\ n_cmds = 0

\* The stored answer of the question on display.
ShownAnswer == qm.objs[QM_get_current_question(qm)].answer

\* The user clicks an option of the stored answer that is not checked yet.
L_check(letter) ==
    /\ win.running
    /\ ~win.showing_answer
    /\ n_answers < MaxLearn
    /\ ~IndexError(qm)
    /\ QM_get_current_question(qm) # 0
    /\ letter \in Range(ShownAnswer)
    /\ letter \in win.options
    /\ letter \notin win.checked
    /\ Becomes(ClickOption(World, letter), hist)
    /\ UNCHANGED <<n_answers, n_marks, n_cmds>>

\* A call of submit_answer in world w.
LearnSubmit(w) ==
    /\ Becomes(MW_submit_answer(w),
               IF Records(w)
               THEN HistSubmitted(hist, QM_get_current_question(w.qm), IsCorrect(w))
               ELSE hist)
    /\ n_answers' = IF Records(w) THEN n_answers + 1 ELSE n_answers
    /\ UNCHANGED <<n_marks, n_cmds>>

\* The user clicks submit_btn with the stored answer selected.
L_submit ==
    /\ win.running
    /\ Records(World)
    /\ IsCorrect(World)
    /\ LearnSubmit(World)

\* The timer of auto_submit_answer fires: submit_answer().
L_timer_submit ==
    /\ win.running
    /\ win.timers.submit > 0
    /\ LearnSubmit([World EXCEPT !.win.timers.submit = @ - 1])

LearnNext ==
    \/ \E letter \in {"A", "B"} : L_check(letter)
    \/ L_submit
    \/ U_mark
    \/ T_emit
    \/ L_timer_submit
    \/ T_next

\* Qt fires every timer that was started and the user goes on answering: as
\* long as a timer is pending or the user has a click to make, a step is
\* taken.
LearnSpec ==
    /\ LearnInit
    /\ [][LearnNext]_vars
    /\ WF_vars(LearnNext)

AllMastered ==
    /\ qm.questions # << >>
    /\ \A o \in Range(qm.questions) : qm.objs[o].mastered

\* No submission of the session was judged incorrect.
OnlyCorrect == \A o \in Live(qm) : qm.objs[o].wrong = 0

\* C38: when every answer submitted is the stored answer of the question on
\* display and every started timer fires, a state is reached in which every
\* question of the set is mastered, and all of them stay mastered from then
\* on (no release is requested).
C38_EventuallyMastered == []OnlyCorrect => <>[]AllMastered

\* C38: both questions of bank A are mastered after four correct answers.
C38_Witness ==
    /\ AllMastered
    /\ Len(qm.questions) = 2
    /\ n_answers >= 4

\* C39: in every state of a running session the progress snapshot counts no
\* more questions with a correct streak than questions answered, so that the
\* wrong count on display, answered minus correct, is not negative.
C39_CorrectWithinAnswered ==
    win.running => QM_get_progress(qm).correct <= QM_get_progress(qm).answered

\* ---------------------------------------------------------------- ExtractSpec
\* From a block of the source text to the question on display: the block as
\* parse_questions reads it, the row it emits, the dict load_from_excel
\* builds from the row of the table, and the buttons set_question shows.
\* A block is the first digit of its number, the letters that have an option
\* line, and the text after the answer label.  "zheng", "que", "cuo", "wu"
\* stand for the four characters of the answers of true/false questions.
MaxKey == 2

ExtractLetters == {"A", "B"}

JudgeChars == {"zheng", "que", "cuo", "wu"}

AnswerTexts ==
    UNION {[1..n -> ExtractLetters] : n \in 0..MaxKey}
        \cup {<<"zheng", "que">>, <<"cuo", "wu">>}

Blocks == [digit : {"1", "2", "3"}, letters : SUBSET ExtractLetters, key : AnswerTexts]

\* The longest prefix of key made of characters of class.
RECURSIVE Run(_, _)
Run(key, class) ==
    IF key = << >> \/ Head(key) \notin class THEN << >>
    ELSE <<Head(key)>> \o Run(Tail(key), class)

\* parse_questions: the type from the first digit, the options of a choice
\* question from its option lines ('' for a letter without a line, and for
\* every letter of a true/false question), the answer from the match of
\* ([A-D]+|[...]+), '' without a match.
parse_questions(block) ==
    LET q_type == IF block.digit = "1" THEN "single"
                  ELSE IF block.digit = "2" THEN "multi" ELSE "judge"
    IN  [type |-> q_type,
         options |-> [l \in ExtractLetters |->
                         IF q_type \in {"single", "multi"} /\ l \in block.letters
                         THEN "text" ELSE ""],
         answer |-> IF Run(block.key, ExtractLetters) # << >>
                    THEN Run(block.key, ExtractLetters)
                    ELSE Run(block.key, JudgeChars)]

\* The row of the table as the model's bank files give it: the letters whose
\* option cell is not empty.
TableRow(question) ==
    [type |-> question.type,
     options |-> {l \in ExtractLetters : question.options[l] # ""},
     answer |-> question.answer]

\* The session with the extracted question as first question of bank A, on
\* display.
ExtractStart(block) ==
    LET m == QM_set_current_set(QM_load_from_excel(QM_init, "A").qm, "A").qm
        o == m.questions[1]
        row == TableRow(parse_questions(block))
        w == [qm |-> [m EXCEPT !.objs[o].type = row.type,
                               !.objs[o].options = row.options,
                               !.objs[o].answer = row.answer],
              db |-> DB_init, win |-> WinInit(TRUE)]
    IN  MW_show_question(w)

ExtractInit ==
    \E block \in Blocks :
        /\ qm = ExtractStart(block).qm
        /\ win = ExtractStart(block).win
        /\ db = DB_init
        /\ disk = DB_init
        /\ hist = [o \in ObjIds |-> NoHist]
        /\ nav = NoNav
        /\ n_answers = 0
        /\ n_marks = 0
        /\ n_cmds = 0

ExtractNext ==
    \/ \E letter \in ExtractLetters : U_check(letter)
    \/ U_submit
    \/ T_emit
    \/ T_submit
    \/ T_next

ExtractSpec == ExtractInit /\ [][ExtractNext]_vars

\* The selections the buttons of question q allow: some of its shown options,
\* one at most unless the question is a multiple-choice one.
Selections(q) ==
    {checked \in SUBSET q.options :
        q.type # "multi" => Cardinality(checked) <= 1}

\* C40: every question of the list with a non-empty answer has a selection of
\* its shown options that get_selected_answers collects into the stored
\* answer.
C40_Answerable ==
    \A o \in Range(qm.questions) :
        qm.objs[o].answer # << >>
          => \E checked \in Selections(qm.objs[o]) :
                 Selected([win EXCEPT !.checked = checked]) = qm.objs[o].answer

====
